---- MODULE Spec2Model ----
(***************************************************************************)
(* Model of the DeFi position monitor (src/src): the AlphaLend parser and  *)
(* adapter, and the Monitor workflows check_and_alert and                  *)
(* generate_daily_report.                                                  *)
(*                                                                         *)
(* Numbers.  Python floats are modelled by exact values:                   *)
(*   Dec  [m, e]   the decimal m * 10^e  (raw amounts, token amounts,      *)
(*                 prices, USD values); kept normalised (no trailing zero  *)
(*                 in m, zero is [0, 0]) so equal values are equal records *)
(*   Rat  [n, d]   the ratio n / d in lowest terms (LTV, health factor);   *)
(*                 [1, 0] is float("inf")                                  *)
(* Floating-point rounding is not modelled.                                *)
(***************************************************************************)
EXTENDS Integers, Sequences, FiniteSets, TLC

VARIABLES
    thresholds,      \* Monitor._thresholds: [ltv_warning, ltv_critical]
    notifiers,       \* Monitor._notifiers: sequence of notifier names
    failing,         \* the notifiers whose send_log and send_alert raise
    market_cache,    \* AlphaLendAdapter._market_cache: market id -> market record
    pc,              \* position of the running workflow
    cmd,             \* the workflow running: "none", "check", "report"
    prices,          \* the price table fetched at the start of the workflow
    wi,              \* index of the wallet being processed
    pi,              \* index of the protocol being processed within the wallet
    positions,       \* result of the last adapter.fetch_positions
    snap,            \* the chain's answers during the last fetch_positions
    k,               \* index of the position being processed
    sent,            \* calls received by the notifiers for the current pair / report
    wallet_lines,    \* generate_daily_report: lines of the current wallet
    sections,        \* generate_daily_report: sections built so far
    has_positions,   \* generate_daily_report: local flag
    empty_pairs,     \* pairs whose fetch returned no position in this workflow
    call_fn,         \* pure-function harness: the function applied last
    call_args,       \* pure-function harness: its arguments
    call_result,     \* pure-function harness: its result
    endpoints,       \* SuiClient.endpoints: sequence of RPC URLs
    current_rpc_index, \* SuiClient.current_rpc_index (0-based)
    rpc_answers,     \* what each endpoint answers during the call or fetch in progress
    loop,            \* run_continuous: "off", "cycle" (in the try body), "sleep"
    interval,        \* run_continuous: local interval, in minutes
    delay,           \* run_continuous: seconds of the sleep in progress
    cli,             \* cli._run: "none", "start", "failed", "loaded", "crashed",
                     \* "built", "running"
    raw_config,      \* the parsed YAML document and the environment of load_config
    app_config       \* what load_config returned or raised

monitor_vars == <<pc, cmd, prices, wi, pi, positions, snap, k, sent,
                  wallet_lines, sections, has_positions, empty_pairs>>
call_vars == <<call_fn, call_args, call_result>>
client_vars == <<endpoints, current_rpc_index, rpc_answers>>
loop_vars == <<loop, interval, delay>>
cli_vars == <<cli, raw_config, app_config>>
env_vars == <<loop_vars, cli_vars>>
vars == <<thresholds, notifiers, failing, market_cache, monitor_vars, call_vars,
          client_vars, env_vars>>

----------------------------------------------------------------------------
(* Exact arithmetic standing for Python's int and float arithmetic.        *)

RECURSIVE Pow10(_)
Pow10(x) == IF x <= 0 THEN 1 ELSE 10 * Pow10(x - 1)

RECURSIVE Gcd(_, _)
Gcd(a, b) == IF b = 0 THEN a ELSE Gcd(b, a % b)

Min(a, b) == IF a <= b THEN a ELSE b

RECURSIVE NormDec(_)
NormDec(x) ==
    IF x.m = 0 THEN [m |-> 0, e |-> 0]
    ELSE IF x.m % 10 = 0 THEN NormDec([m |-> x.m \div 10, e |-> x.e + 1])
    ELSE x

\* the decimal m * 10^e
D(m, e) == NormDec([m |-> m, e |-> e])

DecZero == D(0, 0)

DecMul(a, b) == D(a.m * b.m, a.e + b.e)

\* a / 10^n
DecDivPow10(a, n) == D(a.m, a.e - n)

DecAdd(a, b) ==
    LET e == Min(a.e, b.e)
    IN  D(a.m * Pow10(a.e - e) + b.m * Pow10(b.e - e), e)

DecLeqZero(a) == a.m <= 0

NormRat(n, d) ==
    LET g == Gcd(n, d)
    IN  IF g = 0 THEN [n |-> 0, d |-> 1] ELSE [n |-> n \div g, d |-> d \div g]

RatZero == [n |-> 0, d |-> 1]

\* float("inf")
Inf == [n |-> 1, d |-> 0]

RatOfInt(i) == [n |-> i, d |-> 1]

\* a / b for decimals, b > 0
DecDiv(a, b) ==
    LET e == Min(a.e, b.e)
    IN  NormRat(a.m * Pow10(a.e - e), b.m * Pow10(b.e - e))

RatMulInt(r, i) == NormRat(r.n * i, r.d)

\* r >= t for a ratio r (possibly Inf) and an integer t
RatGeq(r, t) == r.n >= t * r.d

RatLess(r, t) == ~RatGeq(r, t)

----------------------------------------------------------------------------
(* Python dicts are functions with a string domain; d.get(key, default).   *)

EmptyDict == [key \in {} |-> 0]

Get(d, key, default) == IF key \in DOMAIN d THEN d[key] ELSE default

\* "not d" for a dict
IsEmptyDict(d) == DOMAIN d = {}

\* isinstance(x, dict) for a value that is a dict or a number
IsDict(x) == DOMAIN x # {"m", "e"}

----------------------------------------------------------------------------
(* Configuration (src/src/config.py), read-only after start-up.            *)

\* ThresholdsConfig: the defaults, and the same two values swapped (the
\* loader does not validate their order)
ThresholdChoices ==
    { [ltv_warning |-> 70, ltv_critical |-> 80],
      [ltv_warning |-> 80, ltv_critical |-> 70] }

\* ProtocolConfig of "alphalend"
liquidation_threshold == 85
token_decimals == [SUI |-> 9, USDC |-> 6, BTC |-> 8, XBTC |-> 8]
token_aliases == [XBTC |-> "BTC"]

\* get_decimals' default (SUI standard)
DefaultDecimals == 9

\* the fixed-point precision of xtoken ratios: ratios are scaled by 10^18
RatioDigits == 18

----------------------------------------------------------------------------
(* src/src/protocols/alphalend/parser.py                                   *)
(* A coin type string is modelled by its segments between "::" separators  *)
(* ("0x2::sui::SUI" is <<"0x2", "sui", "SUI">>), so that s.split("::") is  *)
(* the sequence itself and "::" in s is Len(s) > 1.                        *)

\* str.upper() on the segments that occur
Upper(s) ==
    CASE s = "sui" -> "SUI"
      [] s = "usdc" -> "USDC"
      [] s = "xbtc" -> "XBTC"
      [] s = "Unknown" -> "UNKNOWN"
      [] OTHER -> s

\* get_token_symbol without .upper()
get_token_symbol_verbatim(coin_type) ==
    IF Len(coin_type) > 1
    THEN coin_type[Len(coin_type)]
    ELSE coin_type[1]

get_token_symbol(coin_type) ==
    IF Len(coin_type) > 1
    THEN Upper(coin_type[Len(coin_type)])
    ELSE Upper(coin_type[1])

\* get_decimals defaulting to 6
get_decimals_default_six(token_symbol, decimals_cfg) ==
    Get(decimals_cfg, token_symbol, 6)

get_decimals(token_symbol, decimals_cfg) ==
    Get(decimals_cfg, token_symbol, DefaultDecimals)

\* resolve_price without the alias fallback
resolve_price_no_alias(token_symbol, price_table, aliases) ==
    Get(price_table, token_symbol, DecZero)

\* resolve_price falling back to the alias only when the price is absent
resolve_price_absent_only(token_symbol, price_table, aliases) ==
    IF token_symbol \notin DOMAIN price_table /\ token_symbol \in DOMAIN aliases
    THEN Get(price_table, aliases[token_symbol], DecZero)
    ELSE Get(price_table, token_symbol, DecZero)

resolve_price(token_symbol, price_table, aliases) ==
    LET price == Get(price_table, token_symbol, DecZero)
    IN  IF price = DecZero /\ token_symbol \in DOMAIN aliases
        THEN Get(price_table, aliases[token_symbol], DecZero)
        ELSE price

\* parse_collateral_entry taking a missing xtoken ratio as 1 instead of 10^18
parse_collateral_entry_unit_default(entry, market_info, price_table, decimals_cfg, aliases) ==
    LET fields == Get(entry, "fields", EmptyDict)
        market_id == Get(fields, "key", 0)
        shares == Get(fields, "value", DecZero)
        coin_type == Get(Get(Get(market_info, "coin_type", EmptyDict),
                             "fields", EmptyDict), "name", <<"Unknown">>)
        symbol == get_token_symbol(coin_type)
        decimals == get_decimals(symbol, decimals_cfg)
        xtoken_ratio_raw == Get(market_info, "xtoken_ratio", D(1, 0))
        xtoken_ratio ==
            IF IsDict(xtoken_ratio_raw)
            THEN Get(Get(xtoken_ratio_raw, "fields", EmptyDict),
                     "value", D(1, 0))
            ELSE xtoken_ratio_raw
        amount == DecDivPow10(DecDivPow10(DecMul(shares, xtoken_ratio),
                                          RatioDigits), decimals)
        price == resolve_price(symbol, price_table, aliases)
    IN  [symbol |-> symbol, market_id |-> market_id, amount |-> amount,
         price |-> price, usd_value |-> DecMul(amount, price)]

parse_collateral_entry(entry, market_info, price_table, decimals_cfg, aliases) ==
    LET fields == Get(entry, "fields", EmptyDict)
        market_id == Get(fields, "key", 0)
        shares == Get(fields, "value", DecZero)
        coin_type == Get(Get(Get(market_info, "coin_type", EmptyDict),
                             "fields", EmptyDict), "name", <<"Unknown">>)
        symbol == get_token_symbol(coin_type)
        decimals == get_decimals(symbol, decimals_cfg)
        xtoken_ratio_raw == Get(market_info, "xtoken_ratio", D(1, RatioDigits))
        xtoken_ratio ==
            IF IsDict(xtoken_ratio_raw)
            THEN Get(Get(xtoken_ratio_raw, "fields", EmptyDict),
                     "value", D(1, RatioDigits))
            ELSE xtoken_ratio_raw
        amount == DecDivPow10(DecDivPow10(DecMul(shares, xtoken_ratio),
                                          RatioDigits), decimals)
        price == resolve_price(symbol, price_table, aliases)
    IN  [symbol |-> symbol, market_id |-> market_id, amount |-> amount,
         price |-> price, usd_value |-> DecMul(amount, price)]

parse_loan_entry(entry, price_table, decimals_cfg, aliases) ==
    LET fields == Get(entry, "fields", EmptyDict)
        raw_amount == Get(fields, "amount", DecZero)
        coin_type == Get(Get(Get(fields, "coin_type", EmptyDict),
                             "fields", EmptyDict), "name", <<"Unknown">>)
        symbol == get_token_symbol(coin_type)
        decimals == get_decimals(symbol, decimals_cfg)
        amount == DecDivPow10(raw_amount, decimals)
        price == resolve_price(symbol, price_table, aliases)
    IN  [symbol |-> symbol, amount |-> amount,
         price |-> price, usd_value |-> DecMul(amount, price)]

\* calc_ltv without its guard against zero collateral
calc_ltv_unguarded(total_collateral_usd, total_borrowed_usd) ==
    RatMulInt(DecDiv(total_borrowed_usd, total_collateral_usd), 100)

calc_ltv(total_collateral_usd, total_borrowed_usd) ==
    IF DecLeqZero(total_collateral_usd)
    THEN RatZero
    ELSE RatMulInt(DecDiv(total_borrowed_usd, total_collateral_usd), 100)

\* calc_health_factor with the threshold taken as a fraction, not a percentage
calc_health_factor_fraction(total_collateral_usd, total_borrowed_usd, liq_threshold) ==
    IF DecLeqZero(total_borrowed_usd)
    THEN Inf
    ELSE DecDiv(DecMul(total_collateral_usd, D(liq_threshold, 0)),
                total_borrowed_usd)

calc_health_factor(total_collateral_usd, total_borrowed_usd, liq_threshold) ==
    IF DecLeqZero(total_borrowed_usd)
    THEN Inf
    ELSE DecDiv(DecDivPow10(DecMul(total_collateral_usd, D(liq_threshold, 0)), 2),
                total_borrowed_usd)

----------------------------------------------------------------------------
(* src/src/services/monitor.py: formatting helpers                         *)

\* _get_status with strict comparisons
get_status_strict(ltv) ==
    IF ltv.n > thresholds.ltv_critical * ltv.d THEN "CRITICAL"
    ELSE IF ltv.n > thresholds.ltv_warning * ltv.d THEN "WARNING"
    ELSE "Healthy"

get_status(ltv) ==
    IF RatGeq(ltv, thresholds.ltv_critical) THEN "CRITICAL"
    ELSE IF RatGeq(ltv, thresholds.ltv_warning) THEN "WARNING"
    ELSE "Healthy"

----------------------------------------------------------------------------
(* The chain as the adapter sees it through its ChainClient during one     *)
(* fetch_positions call.  A snapshot s holds the client's answers:         *)
(*   s.owned      get_owned_objects(wallet)                                *)
(*   s.objects    object id   -> get_object(id)                            *)
(*   s.positions  position id -> get_dynamic_field_object(positions table) *)
(*   s.markets    market id   -> get_dynamic_field_object(markets table)   *)
(* An id without an answer stands for a failed call: the client returns {} *)
(* (src/src/chains/sui/client.py, the except branches).                    *)

\* ProtocolConfig.contracts of "alphalend"
package_id == "0xdef"
positions_table_id == "0x111"
markets_table_id == "0x222"

get_owned_objects(s, wallet_address) == s.owned

get_object(s, object_id) == Get(s.objects, object_id, EmptyDict)

get_dynamic_field_object(s, parent_id, key_type, key_value) ==
    IF parent_id = positions_table_id
    THEN Get(s.positions, key_value, EmptyDict)
    ELSE Get(s.markets, key_value, EmptyDict)

----------------------------------------------------------------------------
(* src/src/chains/sui/client.py: SuiClient.rpc_call                        *)
(* What an endpoint answers to a request is a record:                      *)
(*   [kind |-> "exception"]             the request raised (connection     *)
(*                                      error, timeout, body not JSON)     *)
(*   [kind |-> "object", body |-> d]    the body is the JSON object d      *)
(*   [kind |-> "array", body |-> a]     the body is the JSON array a       *)
(* answers[i + 1] is the answer of endpoint i (the code's indexes are      *)
(* 0-based).                                                               *)

\* "error" in result
HasError(answer) ==
    IF answer.kind = "object" THEN "error" \in DOMAIN answer.body
    ELSE \E i \in DOMAIN answer.body : answer.body[i] = "error"

\* the "for attempt in range(len(self.endpoints))" loop from attempt on;
\* current is self.current_rpc_index, tried lists the endpoints requested so
\* far.  The result tells whether the call raised RuntimeError("All RPC
\* endpoints failed"), what it returned if not, and current_rpc_index after
\* the call.
RECURSIVE RpcAttempts(_, _, _, _)
RpcAttempts(answers, attempt, current, tried) ==
    IF attempt >= Len(answers)
    THEN [raised |-> TRUE, result |-> EmptyDict, index |-> current, tried |-> tried]
    ELSE LET rpc_index == (current + attempt) % Len(answers)
             answer == answers[rpc_index + 1]
         IN  IF answer.kind = "exception" \/ HasError(answer)
             THEN \* the request raised, or RuntimeError("RPC Error")
                  RpcAttempts(answers, attempt + 1, current, Append(tried, rpc_index))
             ELSE IF answer.kind = "object"
             THEN \* self.current_rpc_index = rpc_index; return result.get(...)
                  [raised |-> FALSE,
                   result |-> Get(answer.body, "result", EmptyDict),
                   index |-> rpc_index, tried |-> Append(tried, rpc_index)]
             ELSE \* self.current_rpc_index = rpc_index, then result.get
                  \* raises AttributeError, caught by "except Exception"
                  RpcAttempts(answers, attempt + 1, rpc_index, Append(tried, rpc_index))

\* an rpc_call that returns an empty result where the code raises
rpc_call_never_raises(answers, current) ==
    [raised |-> FALSE, result |-> EmptyDict, index |-> current, tried |-> <<>>]

\* answers has one answer per endpoint
rpc_call(answers, current) == RpcAttempts(answers, 0, current, <<>>)

----------------------------------------------------------------------------
(* src/src/protocols/alphalend/adapter.py                                  *)

\* the object types that occur, and Python's "needle in haystack" on them
CapType == "0xdef::position::PositionCap"
CoinType == "0x2::coin::Coin"

Lower(t) ==
    CASE t = CapType -> "0xdef::position::positioncap"
      [] OTHER -> t

Contains(needle, haystack) ==
    \/ needle = ""
    \/ needle = haystack
    \/ needle = "positioncap" /\ haystack = "0xdef::position::positioncap"
    \/ needle = "0xdef" /\ haystack \in {CapType, "0xdef::position::positioncap"}

\* the test of _get_position_capabilities on one owned object, for an
\* adapter whose self._package_id is pkg
IsCapabilityOf(obj, pkg) ==
    LET obj_type == Get(Get(obj, "data", EmptyDict), "type", "")
        type_lower == Lower(obj_type)
    IN  \/ Contains("positioncap", type_lower)
        \/ Contains("position_cap", type_lower)
        \/ Contains(pkg, obj_type)

IsCapability(obj) == IsCapabilityOf(obj, package_id)

RECURSIVE CapsOf(_, _, _)
CapsOf(objects, i, pkg) ==
    IF i > Len(objects) THEN <<>>
    ELSE LET object_id == Get(Get(objects[i], "data", EmptyDict), "objectId", "")
         IN  IF IsCapabilityOf(objects[i], pkg) /\ object_id # ""
             THEN <<object_id>> \o CapsOf(objects, i + 1, pkg)
             ELSE CapsOf(objects, i + 1, pkg)

CapsFrom(objects, i) == CapsOf(objects, i, package_id)

get_position_capabilities(s, wallet_address) ==
    CapsFrom(get_owned_objects(s, wallet_address), 1)

get_position_data(s, position_id) ==
    LET result == get_dynamic_field_object(s, positions_table_id,
                                           "0x2::object::ID", position_id)
    IN  IF IsEmptyDict(result) THEN EmptyDict
        ELSE Get(Get(Get(Get(result, "content", EmptyDict), "fields", EmptyDict),
                     "value", EmptyDict), "fields", EmptyDict)

\* a _get_market_info that asks the chain on every call
get_market_info_uncached(s, cache, market_id) ==
    LET result == get_dynamic_field_object(s, markets_table_id, "u64", market_id)
    IN  IF IsEmptyDict(result)
        THEN [market |-> EmptyDict, cache |-> cache]
        ELSE LET market ==
                     Get(Get(Get(Get(result, "content", EmptyDict),
                                 "fields", EmptyDict),
                             "value", EmptyDict), "fields", EmptyDict)
             IN  [market |-> market,
                  cache |-> [id \in DOMAIN cache \cup {market_id} |->
                                IF id = market_id THEN market ELSE cache[id]]]

\* returns the market record and the cache after the call
get_market_info(s, cache, market_id) ==
    IF market_id \in DOMAIN cache
    THEN [market |-> cache[market_id], cache |-> cache]
    ELSE LET result == get_dynamic_field_object(s, markets_table_id, "u64", market_id)
         IN  IF IsEmptyDict(result)
             THEN [market |-> EmptyDict, cache |-> cache]
             ELSE LET market ==
                          Get(Get(Get(Get(result, "content", EmptyDict),
                                      "fields", EmptyDict),
                                  "value", EmptyDict), "fields", EmptyDict)
                  IN  [market |-> market,
                       cache |-> [id \in DOMAIN cache \cup {market_id} |->
                                     IF id = market_id THEN market ELSE cache[id]]]

\* an AssetDetail that drops the entry's value
AssetDetailNoValue(d) ==
    [symbol |-> d.symbol, amount |-> d.amount,
     price |-> d.price, usd_value |-> DecZero]

AssetDetail(d) ==
    [symbol |-> d.symbol, amount |-> d.amount,
     price |-> d.price, usd_value |-> d.usd_value]

\* the "for entry in collaterals_raw" loop from entry i on; acc holds
\* collateral_details, total_collateral_usd and the market cache
RECURSIVE ParseCollaterals(_, _, _, _, _)
ParseCollaterals(s, price_table, collaterals_raw, i, acc) ==
    IF i > Len(collaterals_raw) THEN acc
    ELSE LET entry == collaterals_raw[i]
             market_id == Get(Get(entry, "fields", EmptyDict), "key", 0)
             info == get_market_info(s, acc.cache, market_id)
             detail == parse_collateral_entry(entry, info.market, price_table,
                                              token_decimals, token_aliases)
         IN  ParseCollaterals(s, price_table, collaterals_raw, i + 1,
                 [details |-> Append(acc.details, detail),
                  total |-> DecAdd(acc.total, detail.usd_value),
                  cache |-> info.cache])

\* the "for entry in loans_raw" loop from entry i on
RECURSIVE ParseLoans(_, _, _, _)
ParseLoans(price_table, loans_raw, i, acc) ==
    IF i > Len(loans_raw) THEN acc
    ELSE LET detail == parse_loan_entry(loans_raw[i], price_table,
                                        token_decimals, token_aliases)
         IN  ParseLoans(price_table, loans_raw, i + 1,
                 [details |-> Append(acc.details, detail),
                  total |-> DecAdd(acc.total, detail.usd_value)])

\* returns the PositionData and the cache after the call
parse_position(s, cache, position_data, position_id, price_table) ==
    LET collaterals_raw ==
            Get(Get(Get(position_data, "collaterals", EmptyDict),
                    "fields", EmptyDict), "contents", <<>>)
        coll == ParseCollaterals(s, price_table, collaterals_raw, 1,
                    [details |-> <<>>, total |-> DecZero, cache |-> cache])
        loans_raw == Get(position_data, "loans", <<>>)
        loan == ParseLoans(price_table, loans_raw, 1,
                    [details |-> <<>>, total |-> DecZero])
    IN  [position |->
            [collateral_value |-> coll.total,
             borrowed_value |-> loan.total,
             ltv |-> calc_ltv(coll.total, loan.total),
             health_factor |->
                 calc_health_factor(coll.total, loan.total, liquidation_threshold),
             liquidation_threshold |-> liquidation_threshold,
             protocol_name |-> "alphalend",
             collateral_assets |->
                 [j \in 1..Len(coll.details) |-> AssetDetail(coll.details[j])],
             borrowed_assets |->
                 [j \in 1..Len(loan.details) |-> AssetDetail(loan.details[j])]],
         cache |-> coll.cache]

\* the capability loop without "if not position_data: continue"
RECURSIVE FetchFromUnchecked(_, _, _, _, _)
FetchFromUnchecked(s, price_table, position_caps, i, acc) ==
    IF i > Len(position_caps) THEN acc
    ELSE LET details == get_object(s, position_caps[i])
             cap_content ==
                 Get(Get(Get(details, "data", EmptyDict), "content", EmptyDict),
                     "fields", EmptyDict)
             position_id == Get(cap_content, "position_id", "")
             position_data == get_position_data(s, position_id)
         IN  IF position_id = ""
             THEN FetchFromUnchecked(s, price_table, position_caps, i + 1, acc)
             ELSE LET parsed == parse_position(s, acc.cache, position_data,
                                               position_id, price_table)
                  IN  FetchFromUnchecked(s, price_table, position_caps, i + 1,
                          [positions |-> Append(acc.positions, parsed.position),
                           cache |-> parsed.cache])

\* the "for cap_id in position_caps" loop from capability i on; acc holds
\* positions and the market cache
RECURSIVE FetchFrom(_, _, _, _, _)
FetchFrom(s, price_table, position_caps, i, acc) ==
    IF i > Len(position_caps) THEN acc
    ELSE LET details == get_object(s, position_caps[i])
             cap_content ==
                 Get(Get(Get(details, "data", EmptyDict), "content", EmptyDict),
                     "fields", EmptyDict)
             position_id == Get(cap_content, "position_id", "")
             position_data == get_position_data(s, position_id)
         IN  IF position_id = "" \/ IsEmptyDict(position_data)
             THEN FetchFrom(s, price_table, position_caps, i + 1, acc)
             ELSE LET parsed == parse_position(s, acc.cache, position_data,
                                               position_id, price_table)
                  IN  FetchFrom(s, price_table, position_caps, i + 1,
                          [positions |-> Append(acc.positions, parsed.position),
                           cache |-> parsed.cache])

\* returns the positions and the market cache after the call
fetch_positions(s, cache, wallet_address, price_table) ==
    FetchFrom(s, price_table, get_position_capabilities(s, wallet_address), 1,
              [positions |-> <<>>, cache |-> cache])

\* A raw value that int() rejects with ValueError; the numbers of the model
\* are the records [m, e].
NonNumeric == [text |-> "abc"]

IsNumber(v) == DOMAIN v = {"m", "e"}

\* the entries with every value that is not a number replaced by 0
Zeroed(collaterals_raw) ==
    [j \in DOMAIN collaterals_raw |->
        IF IsNumber(collaterals_raw[j].fields.value) THEN collaterals_raw[j]
        ELSE [fields |-> [key |-> collaterals_raw[j].fields.key, value |-> DecZero]]]

\* _parse_position where int() may raise: parse_collateral_entry raises at
\* the first collateral whose value is not a number, after _get_market_info
\* was called for it and for the entries before it; parse_loan_entry raises
\* at a loan whose amount is not a number, after every collateral was parsed
parse_position_raise(s, cache, position_data, price_table) ==
    LET collaterals_raw ==
            Get(Get(Get(position_data, "collaterals", EmptyDict),
                    "fields", EmptyDict), "contents", <<>>)
        loans_raw == Get(position_data, "loans", <<>>)
        bad == {j \in DOMAIN collaterals_raw :
                   ~IsNumber(collaterals_raw[j].fields.value)}
        reached == IF bad = {} THEN collaterals_raw
                   ELSE SubSeq(collaterals_raw, 1,
                               CHOOSE j \in bad : \A h \in bad : j <= h)
        after == ParseCollaterals(s, price_table, Zeroed(reached), 1,
                     [details |-> <<>>, total |-> DecZero, cache |-> cache]).cache
    IN  [raised |-> \/ bad # {}
                    \/ \E j \in DOMAIN loans_raw :
                           ~IsNumber(loans_raw[j].fields.amount),
         cache |-> after]

\* the loop of fetch_positions up to the position whose parsing raises:
\* whether it raises, how many positions were parsed before, and the cache
RECURSIVE FetchRaiseFrom(_, _, _, _, _)
FetchRaiseFrom(s, price_table, position_caps, i, acc) ==
    IF i > Len(position_caps)
    THEN [raised |-> FALSE, parsed |-> Len(acc.positions), cache |-> acc.cache]
    ELSE LET details == get_object(s, position_caps[i])
             cap_content ==
                 Get(Get(Get(details, "data", EmptyDict), "content", EmptyDict),
                     "fields", EmptyDict)
             position_id == Get(cap_content, "position_id", "")
             position_data == get_position_data(s, position_id)
         IN  IF position_id = "" \/ IsEmptyDict(position_data)
             THEN FetchRaiseFrom(s, price_table, position_caps, i + 1, acc)
             ELSE LET attempt == parse_position_raise(s, acc.cache, position_data,
                                                      price_table)
                  IN  IF attempt.raised
                      THEN [raised |-> TRUE, parsed |-> Len(acc.positions),
                            cache |-> attempt.cache]
                      ELSE LET parsed == parse_position(s, acc.cache, position_data,
                                                        position_id, price_table)
                           IN  FetchRaiseFrom(s, price_table, position_caps, i + 1,
                                   [positions |-> Append(acc.positions, parsed.position),
                                    cache |-> parsed.cache])

----------------------------------------------------------------------------
(* Inputs: what the chain and the price oracle may answer.                 *)

\* at most MaxCaps objects owned by a wallet
MaxCaps == 2
\* at most MaxEntries collateral entries and MaxEntries loans in a position
MaxEntries == 2

ObjectIds == <<"0xOBJ1", "0xOBJ2", "0xOBJ3", "0xOBJ4">>
PositionIds == <<"0xPOS1", "0xPOS2", "0xPOS3", "0xPOS4">>

\* price tables returned by the oracle: every feed, the SUI feed missing,
\* and the empty table of a failed fetch
FullPrices == [SUI |-> D(25, -1), USDC |-> D(1, 0), BTC |-> D(100, 0)]
NoSuiPrices == [USDC |-> D(1, 0), BTC |-> D(100, 0)]
PriceTables == {FullPrices, NoSuiPrices, EmptyDict}

\* the markets table of the protocol: market 1 is SUI at ratio 1.0,
\* market 2 is XBTC at ratio 1.5
ChainMarkets ==
    [id \in {1, 2} |->
        IF id = 1
        THEN [coin_type |-> [fields |-> [name |-> <<"0x2", "sui", "SUI">>]],
              xtoken_ratio |-> [fields |-> [value |-> D(1, 18)]]]
        ELSE [coin_type |-> [fields |-> [name |-> <<"0xabc", "coin", "xbtc">>]],
              xtoken_ratio |-> [fields |-> [value |-> D(15, 17)]]]]

DynamicField(value_fields) ==
    [content |-> [fields |-> [value |-> [fields |-> value_fields]]]]

\* the markets table's answers when the lookups of the ids in ok succeed
MarketAnswers(ok) == [id \in ok |-> DynamicField(ChainMarkets[id])]

CollateralEntry(key, value) == [fields |-> [key |-> key, value |-> value]]

LoanEntry(amount, name) ==
    [fields |-> [amount |-> amount, coin_type |-> [fields |-> [name |-> name]]]]

\* a loan whose coin type is not embedded
BareLoanEntry(amount) == [fields |-> [amount |-> amount]]

UsdcType == <<"0xabc", "coin", "USDC">>

RawPosition(collaterals, loans) ==
    [collaterals |-> [fields |-> [contents |-> collaterals]],
     loans |-> loans,
     is_position_healthy |-> TRUE,
     is_position_liquidatable |-> FALSE]

\* 40 SUI of collateral (100 USD at 2.5) against 50, 70 and 80 USDC, and a
\* position holding 0 shares and no loan
MonitorRaw ==
    { RawPosition(<<CollateralEntry(1, D(4, 10))>>, <<LoanEntry(D(50, 6), UsdcType)>>),
      RawPosition(<<CollateralEntry(1, D(4, 10))>>, <<LoanEntry(D(70, 6), UsdcType)>>),
      RawPosition(<<CollateralEntry(1, D(4, 10))>>, <<LoanEntry(D(80, 6), UsdcType)>>),
      RawPosition(<<CollateralEntry(1, DecZero)>>, <<>>) }

CollateralChoices ==
    { CollateralEntry(1, D(4, 10)), CollateralEntry(1, DecZero),
      CollateralEntry(2, D(2, 8)) }

LoanChoices ==
    { LoanEntry(D(70, 6), UsdcType), LoanEntry(D(5, 9), <<"0x2", "sui", "SUI">>),
      BareLoanEntry(D(3, 9)) }

SeqsUpTo(S, n) == UNION {[1..m -> S] : m \in 0..n}

AdapterRaw ==
    { RawPosition(c, l) : c \in SeqsUpTo(CollateralChoices, MaxEntries),
                          l \in SeqsUpTo(LoanChoices, MaxEntries) }

\* what an owned object is: a coin, a capability without position_id, a
\* capability whose position has no data, a capability of a position
Slot(kind, raw) == [kind |-> kind, raw |-> raw]

SlotChoices(raws) ==
    {Slot("coin", EmptyDict), Slot("noid", EmptyDict), Slot("nodata", EmptyDict)}
        \cup {Slot("pos", r) : r \in raws}

\* the snapshot in which the wallet owns the objects described by slots
Snapshot(slots, market_answers) ==
    [owned |->
        [i \in 1..Len(slots) |->
            [data |-> [type |-> IF slots[i].kind = "coin" THEN CoinType ELSE CapType,
                       objectId |-> ObjectIds[i]]]],
     objects |->
        [id \in {ObjectIds[i] : i \in 1..Len(slots)} |->
            LET i == CHOOSE j \in 1..Len(slots) : ObjectIds[j] = id
            IN  [data |-> [content |-> [fields |->
                    IF slots[i].kind \in {"nodata", "pos"}
                    THEN [position_id |-> PositionIds[i]]
                    ELSE EmptyDict]]]],
     positions |->
        [id \in {PositionIds[i] : i \in {j \in 1..Len(slots) : slots[j].kind = "pos"}} |->
            LET i == CHOOSE j \in 1..Len(slots) : PositionIds[j] = id
            IN  DynamicField(slots[i].raw)],
     markets |-> market_answers]

MonitorSnapshots ==
    { Snapshot(sl, MarketAnswers({1, 2})) :
        sl \in SeqsUpTo(SlotChoices(MonitorRaw), MaxCaps) }

AdapterSnapshots ==
    { Snapshot(<<Slot("pos", r)>>, MarketAnswers(ok)) :
        r \in AdapterRaw, ok \in SUBSET {1, 2} }

NoSnapshot == Snapshot(<<>>, MarketAnswers({}))

----------------------------------------------------------------------------
(* src/src/services/monitor.py: class Monitor                              *)
(* A message text is modelled by a record of what the text states (the     *)
(* timestamp is left out).  A call received by a notifier is a record      *)
(* [notifier, method, subject, message].                                   *)

\* AppConfig.wallets: two wallets; the second also names a protocol that is
\* configured but has no adapter factory
Wallets ==
    << [label |-> "main", chain |-> "sui", address |-> "0xA1",
        protocols |-> <<"alphalend">>],
       [label |-> "cold", chain |-> "sui", address |-> "0xB2",
        protocols |-> <<"navi", "alphalend">>] >>

\* Monitor._adapters: the configured protocols that _PROTOCOL_FACTORIES knows
Adapters == {"alphalend"}

\* Monitor._notifiers as built by __init__ from the two enabled flags
BuildNotifiers(telegram_enabled, email_enabled) ==
    (IF telegram_enabled THEN <<"telegram">> ELSE <<>>)
        \o (IF email_enabled THEN <<"email">> ELSE <<>>)

CriticalSubject == "CRITICAL: Liquidation Risk!"
WarningSubject == "WARNING: High LTV"
NoPositionsText == "No active positions found."

RECURSIVE asset_symbols(_)
asset_symbols(assets) ==
    IF assets = <<>> THEN <<>>
    ELSE <<assets[1].symbol>> \o asset_symbols(Tail(assets))

build_log_message(position, wallet_label, proto_name, chain) ==
    [kind |-> "position",
     wallet_label |-> wallet_label, proto_name |-> proto_name, chain |-> Upper(chain),
     status |-> get_status(position.ltv),
     collateral_syms |-> asset_symbols(position.collateral_assets),
     borrowed_syms |-> asset_symbols(position.borrowed_assets),
     collateral_value |-> position.collateral_value,
     borrowed_value |-> position.borrowed_value,
     ltv |-> position.ltv, health_factor |-> position.health_factor]

build_alert(kind, position, wallet_address, wallet_label, proto_name, chain) ==
    [kind |-> kind,
     wallet_label |-> wallet_label, proto_name |-> proto_name, chain |-> Upper(chain),
     wallet |-> wallet_address,
     collateral_syms |-> asset_symbols(position.collateral_assets),
     borrowed_syms |-> asset_symbols(position.borrowed_assets),
     collateral_value |-> position.collateral_value,
     borrowed_value |-> position.borrowed_value,
     ltv |-> position.ltv, health_factor |-> position.health_factor,
     liquidation_threshold |-> position.liquidation_threshold]

build_critical_alert(position, wallet_address, wallet_label, proto_name, chain) ==
    build_alert("critical", position, wallet_address, wallet_label, proto_name, chain)

build_warning_alert(position, wallet_address, wallet_label, proto_name, chain) ==
    build_alert("warning", position, wallet_address, wallet_label, proto_name, chain)

\* the "No active positions found." log without the pair it is about
no_positions_message_unlabelled(wallet_label, proto_name, chain) ==
    [kind |-> "no_positions", text |-> NoPositionsText,
     wallet_label |-> "", proto_name |-> "", chain |-> Upper(chain)]

no_positions_message(wallet_label, proto_name, chain) ==
    [kind |-> "no_positions", text |-> NoPositionsText,
     wallet_label |-> wallet_label, proto_name |-> proto_name, chain |-> Upper(chain)]

\* the notifiers that may be out of order during a run: none, or the one
\* built first
FailingChoices == { {}, {"telegram"} }

\* a dispatch loop without the try: the exception of a notifier ends the loop
RECURSIVE notify_from_unguarded(_, _, _, _)
notify_from_unguarded(i, method, subject, message) ==
    IF i > Len(notifiers) THEN <<>>
    ELSE LET call == [notifier |-> notifiers[i], method |-> method,
                      subject |-> subject, message |-> message]
         IN  IF notifiers[i] \in failing
             THEN <<call>>
             ELSE <<call>> \o notify_from_unguarded(i + 1, method, subject, message)

\* "for notifier in self._notifiers" of _send_log and _send_alert from the
\* i-th notifier on: the calls made, in order.  A call that raises is caught
\* and logged, and the loop goes on with the next notifier
RECURSIVE notify_from(_, _, _, _)
notify_from(i, method, subject, message) ==
    IF i > Len(notifiers) THEN <<>>
    ELSE LET call == [notifier |-> notifiers[i], method |-> method,
                      subject |-> subject, message |-> message]
         IN  IF notifiers[i] \in failing
             THEN \* except Exception: logger.error(...)
                  <<call>> \o notify_from(i + 1, method, subject, message)
             ELSE <<call>> \o notify_from(i + 1, method, subject, message)

\* the calls made by _send_log(message): one per notifier, in order
send_log(message) == notify_from(1, "send_log", "", message)

\* the calls made by _send_alert(message, subject)
send_alert(message, subject) == notify_from(1, "send_alert", subject, message)

\* the position loop body with "if" in place of "elif": a critical position
\* is sent the warning alert as well
position_calls_both(position, wallet_cfg, proto_name) ==
    send_log(build_log_message(position, wallet_cfg.label, proto_name,
                               wallet_cfg.chain))
    \o (IF RatGeq(position.ltv, thresholds.ltv_critical)
        THEN send_alert(build_critical_alert(position, wallet_cfg.address,
                            wallet_cfg.label, proto_name, wallet_cfg.chain),
                        CriticalSubject)
        ELSE <<>>)
    \o (IF RatGeq(position.ltv, thresholds.ltv_warning)
        THEN send_alert(build_warning_alert(position, wallet_cfg.address,
                            wallet_cfg.label, proto_name, wallet_cfg.chain),
                        WarningSubject)
        ELSE <<>>)

\* the position loop body with "else" in place of "elif": every position
\* that is not critical is sent the warning alert
position_calls_alert_always(position, wallet_cfg, proto_name) ==
    send_log(build_log_message(position, wallet_cfg.label, proto_name,
                               wallet_cfg.chain))
    \o (IF RatGeq(position.ltv, thresholds.ltv_critical)
        THEN send_alert(build_critical_alert(position, wallet_cfg.address,
                            wallet_cfg.label, proto_name, wallet_cfg.chain),
                        CriticalSubject)
        ELSE send_alert(build_warning_alert(position, wallet_cfg.address,
                            wallet_cfg.label, proto_name, wallet_cfg.chain),
                        WarningSubject))

\* the position loop body sending the alert before the log
position_calls_alert_first(position, wallet_cfg, proto_name) ==
    (IF RatGeq(position.ltv, thresholds.ltv_critical)
     THEN send_alert(build_critical_alert(position, wallet_cfg.address,
                         wallet_cfg.label, proto_name, wallet_cfg.chain),
                     CriticalSubject)
     ELSE IF RatGeq(position.ltv, thresholds.ltv_warning)
     THEN send_alert(build_warning_alert(position, wallet_cfg.address,
                         wallet_cfg.label, proto_name, wallet_cfg.chain),
                     WarningSubject)
     ELSE <<>>)
    \o send_log(build_log_message(position, wallet_cfg.label, proto_name,
                                  wallet_cfg.chain))

\* the calls made for one position by the body of "for position in positions"
\* of check_and_alert: the log, then the alert its LTV calls for
position_calls(position, wallet_cfg, proto_name) ==
    send_log(build_log_message(position, wallet_cfg.label, proto_name,
                               wallet_cfg.chain))
    \o (IF RatGeq(position.ltv, thresholds.ltv_critical)
        THEN send_alert(build_critical_alert(position, wallet_cfg.address,
                            wallet_cfg.label, proto_name, wallet_cfg.chain),
                        CriticalSubject)
        ELSE IF RatGeq(position.ltv, thresholds.ltv_warning)
        THEN send_alert(build_warning_alert(position, wallet_cfg.address,
                            wallet_cfg.label, proto_name, wallet_cfg.chain),
                        WarningSubject)
        ELSE <<>>)

\* report lines in the reverse of the order of the positions
report_lines_reversed(proto_name, fetched) ==
    [j \in 1..Len(fetched) |->
        LET p == fetched[Len(fetched) + 1 - j]
        IN  [proto_name |-> proto_name, status |-> get_status(p.ltv),
             collateral_value |-> p.collateral_value,
             borrowed_value |-> p.borrowed_value,
             ltv |-> p.ltv, health_factor |-> p.health_factor]]

\* the lines generate_daily_report appends for the positions of one pair
report_lines(proto_name, fetched) ==
    [j \in 1..Len(fetched) |->
        [proto_name |-> proto_name, status |-> get_status(fetched[j].ltv),
         collateral_value |-> fetched[j].collateral_value,
         borrowed_value |-> fetched[j].borrowed_value,
         ltv |-> fetched[j].ltv, health_factor |-> fetched[j].health_factor]]

\* the loop position (wi, pi) names a wallet x protocol pair
AtPair == wi <= Len(Wallets) /\ pi <= Len(Wallets[wi].protocols)

----------------------------------------------------------------------------
(* Initial state: a Monitor just constructed, no workflow started.         *)

MonitorIdle ==
    /\ pc = "idle"
    /\ cmd = "none"
    /\ prices = EmptyDict
    /\ wi = 0
    /\ pi = 0
    /\ positions = <<>>
    /\ snap = NoSnapshot
    /\ k = 0
    /\ sent = <<>>
    /\ wallet_lines = <<>>
    /\ sections = <<>>
    /\ has_positions = FALSE
    /\ empty_pairs = {}

NoCall ==
    /\ call_fn = "none"
    /\ call_args = <<>>
    /\ call_result = "none"

\* SuiClient.__init__ on a chain with two endpoints
ClientStart ==
    /\ endpoints = <<"rpc1", "rpc2">>
    /\ current_rpc_index = 0
    /\ rpc_answers = <<>>

\* run_continuous has not been called
NoLoop ==
    /\ loop = "off"
    /\ interval = 0
    /\ delay = 0

\* the command line is not part of the run
NoCli ==
    /\ cli = "none"
    /\ raw_config = "none"
    /\ app_config = "none"

Init ==
    /\ thresholds \in ThresholdChoices
    /\ \E telegram_enabled \in BOOLEAN, email_enabled \in BOOLEAN :
           notifiers = BuildNotifiers(telegram_enabled, email_enabled)
    /\ failing \in {f \in FailingChoices :
                       \A n \in f : \E i \in DOMAIN notifiers : notifiers[i] = n}
    /\ market_cache = EmptyDict
    /\ MonitorIdle
    /\ NoCall
    /\ ClientStart
    /\ NoLoop
    /\ NoCli

\* the workflow's locals are dropped when it returns
ResetMonitor ==
    /\ pc' = "idle"
    /\ cmd' = "none"
    /\ prices' = EmptyDict
    /\ wi' = 0
    /\ pi' = 0
    /\ positions' = <<>>
    /\ snap' = NoSnapshot
    /\ k' = 0
    /\ sent' = <<>>
    /\ wallet_lines' = <<>>
    /\ sections' = <<>>
    /\ has_positions' = FALSE
    /\ empty_pairs' = {}

config_vars == <<thresholds, notifiers, failing>>
report_vars == <<wallet_lines, sections, has_positions, empty_pairs>>

----------------------------------------------------------------------------
(* check_and_alert                                                         *)

\* prices = await self._oracle.fetch_prices(), then the loops start
StartCheck ==
    /\ pc = "idle"
    /\ \E table \in {FullPrices, NoSuiPrices} : prices' = table
    /\ cmd' = "check"
    /\ pc' = "pair"
    /\ wi' = 1
    /\ pi' = 1
    /\ positions' = <<>>
    /\ snap' = NoSnapshot
    /\ k' = 0
    /\ sent' = <<>>
    /\ wallet_lines' = <<>>
    /\ sections' = <<>>
    /\ has_positions' = FALSE
    /\ empty_pairs' = {}
    /\ UNCHANGED <<config_vars, env_vars, client_vars, market_cache, call_vars>>

\* "if not adapter: continue"
SkipProtocol ==
    /\ pc = "pair"
    /\ AtPair
    /\ Wallets[wi].protocols[pi] \notin Adapters
    /\ pi' = pi + 1
    /\ UNCHANGED <<config_vars, env_vars, client_vars, market_cache, call_vars, pc, cmd, prices, wi,
                   positions, snap, k, sent, report_vars>>

\* positions = await adapter.fetch_positions(wallet_cfg.address, prices)
\* what the adapter gets from a client whose rpc_call raises: the except
\* branches of get_owned_objects, get_object and get_dynamic_field_object
\* return [] and {}
ChainDown == Snapshot(<<>>, MarketAnswers({}))

RpcUp(i) == [kind |-> "object", body |-> [result |-> [served_by |-> i]]]
RpcDown == [kind |-> "exception"]
RpcError == [kind |-> "object", body |-> [error |-> "rpc error"]]

\* what the two endpoints answer during one fetch_positions: the first is
\* down, the second serves or answers with an error.  A fetch that starts at
\* the first endpoint fails over, a later one is served at once.
MonitorAnswers == { <<RpcDown, RpcUp(1)>>, <<RpcDown, RpcError>> }

\* the chain as the adapter sees it during one fetch_positions when the
\* endpoints answer with answers and the chain holds s; the first rpc_call of
\* the fetch is get_owned_objects', and a call that is served leaves
\* current_rpc_index on the serving endpoint for the calls that follow
SeenThrough(answers, current, s) ==
    IF rpc_call(answers, current).raised THEN ChainDown ELSE s

\* positions = await adapter.fetch_positions(...) in check_and_alert, the
\* chain holding one of snapshots
FetchPositionsFrom(snapshots) ==
    /\ pc = "pair"
    /\ cmd = "check"
    /\ AtPair
    /\ Wallets[wi].protocols[pi] \in Adapters
    /\ \E s \in snapshots, answers \in MonitorAnswers :
           LET seen == SeenThrough(answers, current_rpc_index, s)
               fetched == fetch_positions(seen, market_cache, Wallets[wi].address, prices)
           IN  /\ positions' = fetched.positions
               /\ market_cache' = fetched.cache
               /\ snap' = seen
               /\ rpc_answers' = answers
               /\ current_rpc_index' = rpc_call(answers, current_rpc_index).index
    /\ pc' = "fetched"
    /\ k' = 1
    /\ sent' = <<>>
    /\ UNCHANGED <<config_vars, env_vars, endpoints, call_vars, cmd, prices, wi, pi,
                   report_vars>>

FetchPositions == FetchPositionsFrom(MonitorSnapshots)

\* positions holding one entry that is not a number, among well-formed
\* entries
MalformedRaw ==
    { RawPosition(<<CollateralEntry(1, D(4, 10)), CollateralEntry(2, NonNumeric)>>, <<>>),
      RawPosition(<<CollateralEntry(1, D(4, 10))>>,
                  <<LoanEntry(NonNumeric, UsdcType), LoanEntry(D(50, 6), UsdcType)>>) }

\* a wallet whose only or second position is malformed
MalformedSnapshots ==
    { Snapshot(sl, MarketAnswers({1, 2})) :
        sl \in UNION { { <<Slot("pos", r)>>,
                         <<Slot("pos", RawPosition(<<CollateralEntry(1, D(4, 10))>>,
                                                   <<>>)),
                           Slot("pos", r)>> } : r \in MalformedRaw } }

\* adapter.fetch_positions raises ValueError inside check_and_alert: no
\* except clause lies between int() in the parser and the caller of
\* check_and_alert, so the workflow ends there
FetchPositionsRaises ==
    /\ pc = "pair"
    /\ cmd = "check"
    /\ AtPair
    /\ Wallets[wi].protocols[pi] \in Adapters
    /\ \E s \in MalformedSnapshots :
           LET attempt == FetchRaiseFrom(s, prices,
                              get_position_capabilities(s, Wallets[wi].address), 1,
                              [positions |-> <<>>, cache |-> market_cache])
           IN  /\ attempt.raised
               /\ market_cache' = attempt.cache
    /\ ResetMonitor
    /\ UNCHANGED <<config_vars, env_vars, client_vars, call_vars>>

\* "if not positions:" send the "No active positions found." log; continue
LogNoPositions ==
    /\ pc = "fetched"
    /\ positions = <<>>
    /\ sent' = sent \o send_log(no_positions_message(Wallets[wi].label,
                                    Wallets[wi].protocols[pi], Wallets[wi].chain))
    /\ pc' = "pair_done"
    /\ UNCHANGED <<config_vars, env_vars, client_vars, market_cache, call_vars, cmd, prices, wi, pi,
                   positions, snap, k, report_vars>>

\* one iteration of "for position in positions": log, then alert
CheckPosition ==
    /\ pc = "fetched"
    /\ k <= Len(positions)
    /\ sent' = sent \o position_calls(positions[k], Wallets[wi],
                                      Wallets[wi].protocols[pi])
    /\ k' = k + 1
    /\ pc' = IF k = Len(positions) THEN "pair_done" ELSE "fetched"
    /\ UNCHANGED <<config_vars, env_vars, client_vars, market_cache, call_vars, cmd, prices, wi, pi,
                   positions, snap, report_vars>>

\* the next iteration of "for proto_name in wallet_cfg.protocols"; what the
\* finished iteration fetched and sent is dropped
NextProtocol ==
    /\ pc = "pair_done"
    /\ pi' = pi + 1
    /\ pc' = "pair"
    /\ positions' = <<>>
    /\ snap' = NoSnapshot
    /\ k' = 0
    /\ sent' = <<>>
    /\ rpc_answers' = <<>>
    /\ UNCHANGED <<config_vars, env_vars, endpoints, current_rpc_index, market_cache,
                   call_vars, cmd, prices, wi, report_vars>>

\* the protocols of a wallet are exhausted: the next iteration of
\* "for wallet_cfg in self._config.wallets"; generate_daily_report first
\* closes the wallet's section ("if wallet_lines:")
NextWallet ==
    /\ pc = "pair"
    /\ wi <= Len(Wallets)
    /\ pi > Len(Wallets[wi].protocols)
    /\ wi' = wi + 1
    /\ pi' = 1
    /\ IF cmd = "report" /\ wallet_lines # <<>>
       THEN sections' = Append(sections,
                [label |-> Wallets[wi].label, chain |-> Upper(Wallets[wi].chain),
                 lines |-> wallet_lines])
       ELSE sections' = sections
    /\ wallet_lines' = <<>>
    /\ UNCHANGED <<config_vars, env_vars, client_vars, market_cache, call_vars, pc, cmd, prices,
                   positions, snap, k, sent, has_positions, empty_pairs>>

\* check_and_alert returns
EndCheck ==
    /\ pc = "pair"
    /\ cmd = "check"
    /\ wi > Len(Wallets)
    /\ ResetMonitor
    /\ UNCHANGED <<config_vars, env_vars, client_vars, market_cache, call_vars>>

----------------------------------------------------------------------------
(* generate_daily_report                                                   *)

ReportSnapshots ==
    { Snapshot(sl, MarketAnswers({1, 2})) :
        sl \in SeqsUpTo({Slot("nodata", EmptyDict)}
                          \cup {Slot("pos", r) : r \in
                                  {x \in MonitorRaw :
                                      x.loans \in {<<>>, <<LoanEntry(D(80, 6), UsdcType)>>}}},
                        MaxCaps) }

StartReport ==
    /\ pc = "idle"
    /\ \E table \in {FullPrices, NoSuiPrices} : prices' = table
    /\ cmd' = "report"
    /\ pc' = "pair"
    /\ wi' = 1
    /\ pi' = 1
    /\ positions' = <<>>
    /\ snap' = NoSnapshot
    /\ k' = 0
    /\ sent' = <<>>
    /\ wallet_lines' = <<>>
    /\ sections' = <<>>
    /\ has_positions' = FALSE
    /\ empty_pairs' = {}
    /\ UNCHANGED <<config_vars, env_vars, client_vars, market_cache, call_vars>>

\* fetch the positions of the pair and append one line per position
ReportPair ==
    /\ pc = "pair"
    /\ cmd = "report"
    /\ AtPair
    /\ Wallets[wi].protocols[pi] \in Adapters
    /\ \E s \in ReportSnapshots, answers \in MonitorAnswers :
           LET seen == SeenThrough(answers, current_rpc_index, s)
               fetched == fetch_positions(seen, market_cache, Wallets[wi].address, prices)
           IN  /\ positions' = fetched.positions
               /\ market_cache' = fetched.cache
               /\ snap' = seen
               /\ rpc_answers' = <<>>
               /\ current_rpc_index' = rpc_call(answers, current_rpc_index).index
               /\ wallet_lines' = wallet_lines
                      \o report_lines(Wallets[wi].protocols[pi], fetched.positions)
               /\ has_positions' = (has_positions \/ fetched.positions # <<>>)
               /\ empty_pairs' =
                      IF fetched.positions = <<>>
                      THEN empty_pairs \cup
                               {<<Wallets[wi].label, Wallets[wi].protocols[pi]>>}
                      ELSE empty_pairs
    /\ pi' = pi + 1
    /\ UNCHANGED <<config_vars, env_vars, endpoints, call_vars, pc, cmd, prices, wi, k, sent,
                   sections>>

\* body and report are built and sent through _send_alert
SendReport ==
    /\ pc = "pair"
    /\ cmd = "report"
    /\ wi > Len(Wallets)
    /\ sent' = send_alert([kind |-> "report",
                           text |-> IF sections # <<>> THEN "" ELSE NoPositionsText,
                           sections |-> sections], "")
    /\ pc' = "reported"
    /\ positions' = <<>>
    /\ snap' = NoSnapshot
    /\ UNCHANGED <<config_vars, env_vars, client_vars, market_cache, call_vars, cmd, prices, wi, pi,
                   k, report_vars>>

\* generate_daily_report returns
EndReport ==
    /\ pc = "reported"
    /\ ResetMonitor
    /\ UNCHANGED <<config_vars, env_vars, client_vars, market_cache, call_vars>>

Next ==
    \/ StartCheck
    \/ SkipProtocol
    \/ FetchPositions
    \/ FetchPositionsRaises
    \/ LogNoPositions
    \/ CheckPosition
    \/ NextProtocol
    \/ NextWallet
    \/ EndCheck
    \/ StartReport
    \/ ReportPair
    \/ SendReport
    \/ EndReport

Spec == Init /\ [][Next]_vars

----------------------------------------------------------------------------
(* The adapter called on its own: fetch_positions on a wallet owning one   *)
(* position capability, over every raw position, market answer and price   *)
(* table of the input sets.  The market cache lives as long as the adapter. *)

InitAdapter ==
    /\ thresholds = [ltv_warning |-> 70, ltv_critical |-> 80]
    /\ notifiers = BuildNotifiers(TRUE, FALSE)
    /\ failing = {}
    /\ market_cache = EmptyDict
    /\ MonitorIdle
    /\ NoCall
    /\ ClientStart
    /\ NoLoop
    /\ NoCli

\* a caller passes a price table and awaits fetch_positions
AdapterFetch ==
    /\ pc = "idle"
    /\ \E s \in AdapterSnapshots, table \in PriceTables :
           LET fetched == fetch_positions(s, market_cache, Wallets[1].address, table)
           IN  /\ positions' = fetched.positions
               /\ market_cache' = fetched.cache
               /\ snap' = s
               /\ prices' = table
    /\ pc' = "fetched"
    /\ UNCHANGED <<config_vars, env_vars, client_vars, call_vars, cmd, wi, pi, k, sent,
                   report_vars>>

\* the caller is done with the returned list; the adapter keeps its cache
AdapterReturn ==
    /\ pc = "fetched"
    /\ cmd = "none"
    /\ ResetMonitor
    /\ UNCHANGED <<config_vars, env_vars, client_vars, market_cache, call_vars>>

NextAdapter ==
    \/ AdapterFetch
    \/ AdapterReturn

SpecAdapter == InitAdapter /\ [][NextAdapter]_vars

----------------------------------------------------------------------------
(* The pure functions applied to inputs drawn from small sets.             *)

\* LTV values: 0, 50, 69.999, 70, 75, 80, 85 and 1000 percent
LtvInputs ==
    { RatZero, RatOfInt(50), [n |-> 69999, d |-> 1000], RatOfInt(70),
      RatOfInt(75), RatOfInt(80), RatOfInt(85), RatOfInt(1000) }

\* USD totals: 0, 1, 2.5, 70, 85, 100, 8500 and 10000
UsdInputs ==
    { DecZero, D(1, 0), D(25, -1), D(70, 0), D(85, 0), D(100, 0),
      D(8500, 0), D(10000, 0) }

\* liquidation thresholds: the default and one other
LiquidationInputs == {liquidation_threshold, 50}

InitCalc ==
    /\ thresholds \in ThresholdChoices
    /\ notifiers = BuildNotifiers(TRUE, FALSE)
    /\ failing = {}
    /\ market_cache = EmptyDict
    /\ MonitorIdle
    /\ NoCall
    /\ ClientStart
    /\ NoLoop
    /\ NoCli

CallGetStatus ==
    /\ \E ltv \in LtvInputs :
           /\ call_args' = <<ltv>>
           /\ call_result' = get_status(ltv)
    /\ call_fn' = "get_status"
    /\ UNCHANGED <<config_vars, env_vars, client_vars, market_cache, monitor_vars>>

CallCalcLtv ==
    /\ \E c \in UsdInputs, b \in UsdInputs :
           /\ call_args' = <<c, b>>
           /\ call_result' = calc_ltv(c, b)
    /\ call_fn' = "calc_ltv"
    /\ UNCHANGED <<config_vars, env_vars, client_vars, market_cache, monitor_vars>>

CallCalcHealthFactor ==
    /\ \E c \in UsdInputs, b \in UsdInputs, lt \in LiquidationInputs :
           /\ call_args' = <<c, b, lt>>
           /\ call_result' = calc_health_factor(c, b, lt)
    /\ call_fn' = "calc_health_factor"
    /\ UNCHANGED <<config_vars, env_vars, client_vars, market_cache, monitor_vars>>

\* resolve_price arguments: symbols; price tables with a present, a zero and
\* an absent price; alias tables with no alias, one alias and a chain of two
SymbolInputs == {"SUI", "XBTC", "BTC", "DOGE"}

PriceInputs ==
    { FullPrices, NoSuiPrices, EmptyDict,
      [XBTC |-> D(5, 0), BTC |-> D(100, 0)],
      [XBTC |-> DecZero, BTC |-> D(100, 0)],
      [SUI |-> DecZero],
      [WBTC |-> D(7, 0)] }

AliasInputs ==
    { token_aliases, EmptyDict, [XBTC |-> "BTC", BTC |-> "WBTC"] }

CallResolvePrice ==
    /\ \E symbol \in SymbolInputs, table \in PriceInputs, aliases \in AliasInputs :
           /\ call_args' = <<symbol, table, aliases>>
           /\ call_result' = resolve_price(symbol, table, aliases)
    /\ call_fn' = "resolve_price"
    /\ UNCHANGED <<config_vars, env_vars, client_vars, market_cache, monitor_vars>>

\* raw share counts: 0, 0.5, 2 and 40 tokens of 9 decimals
ShareInputs == {DecZero, D(5, 8), D(2, 9), D(4, 10)}

SuiName == [fields |-> [name |-> <<"0x2", "sui", "SUI">>]]

\* market records: the xtoken ratio as a Move struct (1.0, 1.5 and 0), as a
\* plain number, missing, and a struct without value; the XBTC market; no
\* record at all
MarketInputs ==
    { ChainMarkets[1], ChainMarkets[2],
      [coin_type |-> SuiName, xtoken_ratio |-> [fields |-> [value |-> D(15, 17)]]],
      [coin_type |-> SuiName, xtoken_ratio |-> [fields |-> [value |-> DecZero]]],
      [coin_type |-> SuiName, xtoken_ratio |-> D(15, 17)],
      [coin_type |-> SuiName],
      [coin_type |-> SuiName, xtoken_ratio |-> [fields |-> EmptyDict]],
      EmptyDict }

\* parse_collateral_entry applied to two entries of one market
CallParseCollateralEntry ==
    /\ \E shares1 \in ShareInputs, shares2 \in ShareInputs, market_info \in MarketInputs,
          table \in {FullPrices, NoSuiPrices} :
           /\ call_args' = <<shares1, shares2, market_info, table>>
           /\ call_result' =
                  <<parse_collateral_entry(CollateralEntry(1, shares1), market_info,
                                           table, token_decimals, token_aliases),
                    parse_collateral_entry(CollateralEntry(1, shares2), market_info,
                                           table, token_decimals, token_aliases)>>
    /\ call_fn' = "parse_collateral_entry"
    /\ UNCHANGED <<config_vars, env_vars, client_vars, market_cache, monitor_vars>>

\* loan entries: amounts 0, 70 * 10^6 and 5 * 10^9 of USDC, SUI, a token
\* without configured decimals, and no coin type; one entry carries a
\* stray xtoken_ratio field
LoanInputs ==
    { LoanEntry(a, t) : a \in {DecZero, D(70, 6), D(5, 9)},
                        t \in {UsdcType, <<"0x2", "sui", "SUI">>,
                               <<"0x9", "doge", "DOGE">>} }
    \cup { BareLoanEntry(a) : a \in {DecZero, D(5, 9)} }
    \cup { [fields |-> [amount |-> D(70, 6),
                        coin_type |-> [fields |-> [name |-> UsdcType]],
                        xtoken_ratio |-> [fields |-> [value |-> D(15, 17)]]]] }

LoanPrices == [SUI |-> D(25, -1), USDC |-> D(1, 0), DOGE |-> D(2, -1)]

CallParseLoanEntry ==
    /\ \E entry \in LoanInputs, table \in {LoanPrices, NoSuiPrices} :
           /\ call_args' = <<entry, table>>
           /\ call_result' = parse_loan_entry(entry, table, token_decimals,
                                              token_aliases)
    /\ call_fn' = "parse_loan_entry"
    /\ UNCHANGED <<config_vars, env_vars, client_vars, market_cache, monitor_vars>>

(* get_token_symbol on strings written out character by character, over   *)
(* an alphabet with the separator's character, a lower-case and an         *)
(* upper-case letter.                                                      *)

\* strings of at most MaxChars characters
MaxChars == 4

Alphabet == {":", "a", "B"}

\* str.upper, character by character
UpperChars(s) == [i \in DOMAIN s |-> IF s[i] = "a" THEN "A" ELSE s[i]]

\* "::" in coin_type
HasSeparator(s) == \E i \in 1..(Len(s) - 1) : s[i] = ":" /\ s[i + 1] = ":"

\* coin_type.split("::") from the left, segment holding the characters read
\* since the last separator
RECURSIVE SplitFrom(_, _)
SplitFrom(s, segment) ==
    IF s = <<>> THEN <<segment>>
    ELSE IF Len(s) >= 2 /\ s[1] = ":" /\ s[2] = ":"
    THEN <<segment>> \o SplitFrom(SubSeq(s, 3, Len(s)), <<>>)
    ELSE SplitFrom(Tail(s), Append(segment, s[1]))

\* a get_token_symbol that does not upper-case
get_token_symbol_chars_as_written(coin_type) ==
    IF HasSeparator(coin_type)
    THEN SplitFrom(coin_type, <<>>)[Len(SplitFrom(coin_type, <<>>))]
    ELSE coin_type

\* get_token_symbol on a string of characters
get_token_symbol_chars(coin_type) ==
    IF HasSeparator(coin_type)
    THEN UpperChars(SplitFrom(coin_type, <<>>)[Len(SplitFrom(coin_type, <<>>))])
    ELSE UpperChars(coin_type)

CallGetTokenSymbol ==
    /\ \E coin_type \in SeqsUpTo(Alphabet, MaxChars) :
           /\ call_args' = <<coin_type>>
           /\ call_result' = get_token_symbol_chars(coin_type)
    /\ call_fn' = "get_token_symbol"
    /\ UNCHANGED <<config_vars, env_vars, client_vars, market_cache, monitor_vars>>

\* at most MaxOwned objects owned by the wallet
MaxOwned == 3

\* what suix_getOwnedObjects may list: a position capability, one without
\* an objectId, a coin, an entry without data
OwnedChoices ==
    { [data |-> [type |-> CapType, objectId |-> "0xc1"]],
      [data |-> [type |-> CapType, objectId |-> ""]],
      [data |-> [type |-> CoinType, objectId |-> "0xcoin"]],
      EmptyDict }

\* ProtocolConfig.contracts as _build_protocols leaves it: with package_id,
\* or without it when the configuration omits the key
ContractsChoices ==
    { [package_id |-> package_id, positions_table_id |-> positions_table_id,
       markets_table_id |-> markets_table_id],
      [positions_table_id |-> positions_table_id,
       markets_table_id |-> markets_table_id] }

\* AlphaLendAdapter(client, config)._get_position_capabilities(wallet) with
\* the client listing the objects
CallGetPositionCapabilities ==
    /\ \E contracts \in ContractsChoices, objects \in SeqsUpTo(OwnedChoices, MaxOwned) :
           /\ call_args' = <<contracts, objects>>
           /\ call_result' = CapsOf(objects, 1, Get(contracts, "package_id", ""))
    /\ call_fn' = "get_position_capabilities"
    /\ UNCHANGED <<config_vars, env_vars, client_vars, market_cache, monitor_vars>>

NextCalc ==
    \/ CallGetStatus
    \/ CallCalcLtv
    \/ CallCalcHealthFactor
    \/ CallResolvePrice
    \/ CallParseCollateralEntry
    \/ CallParseLoanEntry
    \/ CallGetTokenSymbol
    \/ CallGetPositionCapabilities

SpecCalc == InitCalc /\ [][NextCalc]_vars

----------------------------------------------------------------------------
(* SuiClient.rpc_call called on its own, on a client with 0 to             *)
(* MaxEndpoints endpoints, over every combination of answers.              *)

\* at most MaxEndpoints RPC endpoints configured for the chain
MaxEndpoints == 3

EndpointUrls == <<"rpc1", "rpc2", "rpc3", "rpc4", "rpc5">>

\* the answers endpoint i may give: an exception, a result naming the
\* endpoint, a JSON-RPC error, an object with neither member, an empty array
AnswerChoices(i) ==
    { [kind |-> "exception"],
      [kind |-> "object", body |-> [result |-> [served_by |-> i]]],
      [kind |-> "object", body |-> [error |-> "rpc error"]],
      [kind |-> "object", body |-> EmptyDict],
      [kind |-> "array", body |-> <<>>] }

AnswersFor(n) ==
    {a \in [1..n -> UNION {AnswerChoices(i) : i \in 0..(n - 1)}] :
        \A i \in 1..n : a[i] \in AnswerChoices(i - 1)}

\* ChainConfig.rpc_endpoints is not validated: it may be empty
InitClient ==
    /\ thresholds = [ltv_warning |-> 70, ltv_critical |-> 80]
    /\ notifiers = BuildNotifiers(TRUE, FALSE)
    /\ failing = {}
    /\ market_cache = EmptyDict
    /\ MonitorIdle
    /\ NoCall
    /\ \E n \in 0..MaxEndpoints : endpoints = SubSeq(EndpointUrls, 1, n)
    /\ current_rpc_index = 0
    /\ rpc_answers = <<>>
    /\ NoLoop
    /\ NoCli

\* one rpc_call; call_args keeps current_rpc_index before the call
RpcCall ==
    /\ \E answers \in AnswersFor(Len(endpoints)) :
           LET r == rpc_call(answers, current_rpc_index)
           IN  /\ rpc_answers' = answers
               /\ current_rpc_index' = r.index
               /\ call_result' = r
    /\ call_fn' = "rpc_call"
    /\ call_args' = <<current_rpc_index>>
    /\ UNCHANGED <<config_vars, env_vars, market_cache, monitor_vars, endpoints>>

SpecClient == InitClient /\ [][RpcCall]_vars

----------------------------------------------------------------------------

(* SuiClient.get_owned_objects called on its own, over every run of at     *)
(* most MaxPages answers to its page requests.                             *)

\* at most MaxPages page requests are answered
MaxPages == 3

\* the "data" of a page
PageData == { <<>>, <<"0xo1">>, <<"0xo2", "0xo3">> }

\* what rpc_call gives for one page request: it raises, or it returns a
\* result with "data", "hasNextPage" and "nextCursor", or one lacking some
\* of them
PageChoices ==
    { [kind |-> "raise"] }
    \cup { [kind |-> "result", result |-> r] :
             r \in { [data |-> d, hasNextPage |-> h, nextCursor |-> c] :
                       d \in PageData, h \in BOOLEAN, c \in {<<>>, <<"cursor">>} }
                   \cup { [data |-> d, hasNextPage |-> TRUE] : d \in PageData }
                   \cup { [hasNextPage |-> TRUE, nextCursor |-> <<"cursor">>],
                          EmptyDict } }

\* "not has_next or not cursor" on a returned page
IsLastPage(result) ==
    \/ ~Get(result, "hasNextPage", FALSE)
    \/ Get(result, "nextCursor", <<>>) = <<>>

\* the answers the chain gives to the successive page requests of one call:
\* the call makes no request after a failed or a last page
PageRuns ==
    { pages \in SeqsUpTo(PageChoices, MaxPages) :
        /\ pages # <<>>
        /\ \/ pages[Len(pages)].kind = "raise"
           \/ IsLastPage(pages[Len(pages)].result) }

\* a get_owned_objects that returns what it has collected when a page fails
RECURSIVE get_owned_objects_partial(_, _, _)
get_owned_objects_partial(pages, i, all_objects) ==
    IF pages[i].kind = "raise" THEN all_objects
    ELSE LET result == pages[i].result
             collected == all_objects \o Get(result, "data", <<>>)
         IN  IF IsLastPage(result) THEN collected
             ELSE get_owned_objects_partial(pages, i + 1, collected)

\* the while loop of get_owned_objects from its i-th request on, inside the
\* try whose except returns []
RECURSIVE get_owned_objects_paged(_, _, _)
get_owned_objects_paged(pages, i, all_objects) ==
    IF pages[i].kind = "raise" THEN <<>>
    ELSE LET result == pages[i].result
             collected == all_objects \o Get(result, "data", <<>>)
         IN  IF IsLastPage(result) THEN collected
             ELSE get_owned_objects_paged(pages, i + 1, collected)

\* a client about to be asked for the objects of a wallet; call_args holds
\* the answers the chain will give
InitPages ==
    /\ thresholds = [ltv_warning |-> 70, ltv_critical |-> 80]
    /\ notifiers = BuildNotifiers(TRUE, FALSE)
    /\ failing = {}
    /\ market_cache = EmptyDict
    /\ MonitorIdle
    /\ ClientStart
    /\ NoLoop
    /\ NoCli
    /\ call_fn = "none"
    /\ call_args \in { <<pages>> : pages \in PageRuns }
    /\ call_result = "none"

GetOwnedObjects ==
    /\ call_fn = "none"
    /\ call_fn' = "get_owned_objects"
    /\ call_result' = get_owned_objects_paged(call_args[1], 1, <<>>)
    /\ UNCHANGED <<config_vars, env_vars, client_vars, market_cache, monitor_vars,
                   call_args>>

SpecPages == InitPages /\ [][GetOwnedObjects]_vars

----------------------------------------------------------------------------

(* Monitor.run_continuous: the monitoring loop around check_and_alert.     *)

\* MonitorConfig.check_interval_minutes
CheckIntervalMinutes == 15

\* the check_interval_minutes argument: <<>> for None, <<m>> for the int m
IntervalArgs == {<<>>, <<0>>, <<5>>}

\* check_interval_minutes or self._config.monitor.check_interval_minutes
interval_or_default(arg) ==
    IF arg # <<>> /\ arg[1] # 0 THEN arg[1] ELSE CheckIntervalMinutes

\* run_continuous up to the first "while True"
RunContinuous ==
    /\ loop = "off"
    /\ pc = "idle"
    /\ \E arg \in IntervalArgs :
           /\ interval' = interval_or_default(arg)
           /\ call_args' = <<arg>>
    /\ call_fn' = "run_continuous"
    /\ loop' = "cycle"
    /\ UNCHANGED <<config_vars, client_vars, cli_vars, market_cache, monitor_vars,
                   call_result, delay>>

\* what the chain holds for a wallet during the loop: no capability, or one
\* capability with one of the positions of MonitorRaw
LoopSnapshots ==
    { Snapshot(sl, MarketAnswers({1, 2})) :
        sl \in {<<>>} \cup {<<Slot("pos", r)>> : r \in MonitorRaw} }

\* try: await self.check_and_alert()
LoopStartCheck == loop = "cycle" /\ StartCheck

\* the steps of check_and_alert inside the loop
LoopCheckStep ==
    /\ loop = "cycle"
    /\ cmd = "check"
    /\ \/ SkipProtocol
       \/ FetchPositionsFrom(LoopSnapshots)
       \/ LogNoPositions
       \/ CheckPosition
       \/ NextProtocol
       \/ NextWallet

\* check_and_alert returns: await asyncio.sleep(interval * 60)
LoopCycleReturns ==
    /\ loop = "cycle"
    /\ pc = "pair"
    /\ cmd = "check"
    /\ wi > Len(Wallets)
    /\ ResetMonitor
    /\ loop' = "sleep"
    /\ delay' = interval * 60
    /\ UNCHANGED <<config_vars, client_vars, cli_vars, market_cache, call_vars, interval>>

\* a variant of LoopCycleRaises in which the exception leaves run_continuous
LoopCycleRaisesUncaught ==
    /\ loop = "cycle"
    /\ pc = "pair"
    /\ cmd = "check"
    /\ AtPair
    /\ Wallets[wi].protocols[pi] \in Adapters
    /\ ResetMonitor
    /\ loop' = "off"
    /\ delay' = 0
    /\ UNCHANGED <<config_vars, client_vars, cli_vars, market_cache, call_vars, interval>>

\* adapter.fetch_positions raises inside check_and_alert (the parser's int()
\* on a field that is not a number is not caught by the adapter): the
\* exception reaches "except Exception" and the loop sleeps 60 seconds
LoopCycleRaises ==
    /\ loop = "cycle"
    /\ pc = "pair"
    /\ cmd = "check"
    /\ AtPair
    /\ Wallets[wi].protocols[pi] \in Adapters
    /\ ResetMonitor
    /\ loop' = "sleep"
    /\ delay' = 60
    /\ UNCHANGED <<config_vars, client_vars, cli_vars, market_cache, call_vars, interval>>

\* asyncio.sleep returns: the next iteration of "while True"
LoopWake ==
    /\ loop = "sleep"
    /\ loop' = "cycle"
    /\ delay' = 0
    /\ UNCHANGED <<config_vars, client_vars, cli_vars, market_cache, monitor_vars,
                   call_vars, interval>>

NextLoop ==
    \/ RunContinuous
    \/ LoopStartCheck
    \/ LoopCheckStep
    \/ LoopCycleReturns
    \/ LoopCycleRaises
    \/ LoopWake

\* the event loop runs the one coroutine: every await of the loop returns
\* (requests have a timeout, a sleep ends), so a step that can be taken is
\* eventually taken
SpecLoop == InitAdapter /\ [][NextLoop]_vars /\ WF_vars(NextLoop)

----------------------------------------------------------------------------

(* AlphaLendAdapter._get_market_info called on its own, while the chain's  *)
(* answer for a market changes from call to call.                          *)

\* the market as the chain holds it after its ratio has changed
RepricedMarket(id) ==
    [ChainMarkets[id] EXCEPT !.xtoken_ratio = [fields |-> [value |-> D(2, 18)]]]

\* what get_dynamic_field_object may return for market id: nothing (the
\* object is missing or the call failed), the market, the market with another
\* ratio, an object without content
MarketAnswerChoices(id) ==
    { EmptyDict, DynamicField(ChainMarkets[id]), DynamicField(RepricedMarket(id)),
      [objectId |-> "0xmarket"] }

\* the chain answering answer for market id
MarketSnapshot(id, answer) ==
    Snapshot(<<>>, IF IsEmptyDict(answer) THEN MarketAnswers({})
                   ELSE [x \in {id} |-> answer])

\* one _get_market_info(market_id); call_args keeps the id and what the chain
\* would answer
CallGetMarketInfo ==
    /\ pc = "idle"
    /\ \E id \in DOMAIN ChainMarkets :
           \E answer \in MarketAnswerChoices(id) :
               LET r == get_market_info(MarketSnapshot(id, answer), market_cache, id)
               IN  /\ market_cache' = r.cache
                   /\ call_result' = r.market
                   /\ call_args' = <<id, answer>>
    /\ call_fn' = "get_market_info"
    /\ UNCHANGED <<config_vars, env_vars, client_vars, monitor_vars>>

\* a position with collateral on one market or on both
CacheRaw ==
    { RawPosition(c, <<>>) :
        c \in { <<CollateralEntry(1, D(4, 10))>>, <<CollateralEntry(2, D(2, 8))>>,
                <<CollateralEntry(1, D(4, 10)), CollateralEntry(2, D(2, 8))>> } }

\* one fetch_positions, which fills the cache through _get_market_info for
\* the markets of the position's collateral that the chain answers for
CacheFetch ==
    /\ pc = "idle"
    /\ \E r \in CacheRaw, ok \in SUBSET DOMAIN ChainMarkets :
           LET s == Snapshot(<<Slot("pos", r)>>, MarketAnswers(ok))
               fetched == fetch_positions(s, market_cache, Wallets[1].address, FullPrices)
           IN  /\ market_cache' = fetched.cache
               /\ call_result' = fetched.positions
               /\ call_args' = <<r, ok>>
    /\ call_fn' = "fetch_positions"
    /\ UNCHANGED <<config_vars, env_vars, client_vars, monitor_vars>>

NextCache ==
    \/ CallGetMarketInfo
    \/ CacheFetch

SpecCache == InitAdapter /\ [][NextCache]_vars

----------------------------------------------------------------------------

(* src/src/config.py: load_config and _validate, and src/src/cli.py: _run  *)
(* A YAML value that may be missing or null is a record: [kind |->         *)
(* "absent"], [kind |-> "null"], or [kind |-> "list", items |-> sequence]. *)
(* The document is [doc |-> "null"] for an empty file, else [doc |->       *)
(* "mapping", wallets, chains, protocols].                                 *)

\* at most MaxWallets entries under "wallets"
MaxWallets == 2

\* _interpolate_env on a string: ${VAR} becomes the variable's value, or ""
\* when it is not set
interpolate_env(value, env) ==
    IF value = "${WALLET_ADDRESS}"
    THEN IF "WALLET_ADDRESS" \in DOMAIN env THEN env["WALLET_ADDRESS"] ELSE ""
    ELSE value

\* _build_wallets on the interpolated list
RECURSIVE build_wallets(_, _)
build_wallets(raw, env) ==
    IF raw = <<>> THEN <<>>
    ELSE <<[label |-> Get(raw[1], "label", ""),
            chain |-> Get(raw[1], "chain", ""),
            address |-> interpolate_env(Get(raw[1], "address", ""), env),
            protocols |-> Get(raw[1], "protocols", <<>>)]>>
         \o build_wallets(Tail(raw), env)

\* the first unknown protocol of a wallet, or "" when there is none
RECURSIVE first_unknown(_, _)
first_unknown(protos, known) ==
    IF protos = <<>> THEN ""
    ELSE IF protos[1] \notin known THEN protos[1]
    ELSE first_unknown(Tail(protos), known)

\* a _validate that checks the wallets' addresses and chains only
RECURSIVE validate_wallets_lax(_, _)
validate_wallets_lax(wallets, cfg) ==
    IF wallets = <<>> THEN "ok"
    ELSE IF wallets[1].address = "" THEN "has no address"
    ELSE IF wallets[1].chain \notin DOMAIN cfg.chains THEN "references unknown chain"
    ELSE validate_wallets_lax(Tail(wallets), cfg)

\* the "for wallet in cfg.wallets" loop of _validate: the message of the
\* ValueError raised, or "ok"
RECURSIVE validate_wallets(_, _)
validate_wallets(wallets, cfg) ==
    IF wallets = <<>> THEN "ok"
    ELSE IF wallets[1].address = "" THEN "has no address"
    ELSE IF wallets[1].chain \notin DOMAIN cfg.chains THEN "references unknown chain"
    ELSE IF first_unknown(wallets[1].protocols, DOMAIN cfg.protocols) # ""
    THEN "references unknown protocol"
    ELSE validate_wallets(Tail(wallets), cfg)

\* _validate: the message of the ValueError raised, or "ok"
validate(cfg) ==
    IF cfg.wallets = <<>> THEN "At least one wallet must be configured"
    ELSE validate_wallets(cfg.wallets, cfg)

NoConfig == [wallets |-> <<>>, chains |-> EmptyDict, protocols |-> EmptyDict]

\* load_config from the point where the file has been parsed: what it
\* raises ("none" when it returns), the message, and the AppConfig built
load_config(raw, env) ==
    IF raw.doc = "null"
    THEN \* raw.get on None
         [raised |-> "AttributeError", message |-> "", cfg |-> NoConfig]
    ELSE IF raw.wallets.kind = "null"
    THEN \* _build_wallets iterates None
         [raised |-> "TypeError", message |-> "", cfg |-> NoConfig]
    ELSE LET cfg == [wallets |->
                         build_wallets(IF raw.wallets.kind = "list"
                                       THEN raw.wallets.items ELSE <<>>, env),
                     chains |-> raw.chains,
                     protocols |-> raw.protocols]
             verdict == validate(cfg)
         IN  IF verdict = "ok"
             THEN [raised |-> "none", message |-> "", cfg |-> cfg]
             ELSE [raised |-> "ValueError", message |-> verdict, cfg |-> NoConfig]

\* the entries that may stand under "wallets"
RawWalletChoices ==
    { [label |-> "main", chain |-> c, address |-> a, protocols |-> ps] :
        c \in {"sui", "eth"}, a \in {"0xA1", "${WALLET_ADDRESS}"},
        ps \in {<<"alphalend">>, <<"alphalend", "navi">>} }
    \cup { [label |-> "bare", chain |-> "sui", protocols |-> <<"alphalend">>],
           [label |-> "idle", chain |-> "sui", address |-> "0xA1"] }

RawWalletsChoices ==
    { [kind |-> "absent"], [kind |-> "null"] }
    \cup { [kind |-> "list", items |-> w] : w \in SeqsUpTo(RawWalletChoices, MaxWallets) }

SuiChain == [rpc_endpoints |-> <<"rpc1", "rpc2">>]

RawDocuments ==
    { [doc |-> "null"] }
    \cup { [doc |-> "mapping", wallets |-> w, chains |-> c, protocols |-> p] :
             w \in RawWalletsChoices,
             c \in { EmptyDict, [n \in {"sui"} |-> SuiChain] },
             p \in { [n \in {"alphalend"} |-> [chain |-> "sui"]],
                     [n \in {"alphalend"} |-> [chain |-> "eth"]],
                     [n \in {"alphalend", "navi"} |-> [chain |-> "sui"]] } }

Environments == { EmptyDict, [v \in {"WALLET_ADDRESS"} |-> "0xE1"] }

InitCli ==
    /\ thresholds = [ltv_warning |-> 70, ltv_critical |-> 80]
    /\ notifiers = BuildNotifiers(TRUE, FALSE)
    /\ failing = {}
    /\ market_cache = EmptyDict
    /\ MonitorIdle
    /\ NoCall
    /\ ClientStart
    /\ NoLoop
    /\ cli = "start"
    /\ \E raw \in RawDocuments, env \in Environments :
           raw_config = [yaml |-> raw, env |-> env]
    /\ app_config = [raised |-> "none", message |-> "", cfg |-> NoConfig]

\* config = load_config(args.config)
LoadConfig ==
    /\ cli = "start"
    /\ app_config' = load_config(raw_config.yaml, raw_config.env)
    /\ cli' = IF app_config'.raised = "none" THEN "loaded" ELSE "failed"
    /\ UNCHANGED <<config_vars, client_vars, loop_vars, market_cache, monitor_vars,
                   call_vars, raw_config>>

\* monitor = Monitor(config): self._chain_clients[proto_cfg.chain] raises
\* KeyError for a protocol whose chain is not in chains
BuildMonitor ==
    /\ cli = "loaded"
    /\ cli' = IF \A n \in DOMAIN app_config.cfg.protocols :
                     app_config.cfg.protocols[n].chain \in DOMAIN app_config.cfg.chains
              THEN "built" ELSE "crashed"
    /\ UNCHANGED <<config_vars, client_vars, loop_vars, market_cache, monitor_vars,
                   call_vars, raw_config, app_config>>

\* the dispatch on args.command
RunCommand ==
    /\ cli = "built"
    /\ \E command \in {"check", "report", "monitor"} : call_fn' = command
    /\ cli' = "running"
    /\ UNCHANGED <<config_vars, client_vars, loop_vars, market_cache, monitor_vars,
                   call_args, call_result, raw_config, app_config>>

NextCli ==
    \/ LoadConfig
    \/ BuildMonitor
    \/ RunCommand

SpecCli == InitCli /\ [][NextCli]_vars

----------------------------------------------------------------------------

(* Claims                                                                  *)

\* a decimal's value as an integer number of units 10^e, for e <= x.e
Units(x, e) == x.m * Pow10(x.e - e)

\* C1: _get_status classifies an LTV as Critical if ltv >= ltv_critical,
\* otherwise Warning if ltv >= ltv_warning, otherwise Healthy; an LTV equal
\* to a threshold is in the higher tier (never below the tier it bounds).
C1_Classification ==
    call_fn = "get_status" =>
        LET ltv == call_args[1]
            crit == ltv.n >= thresholds.ltv_critical * ltv.d
            warn == ltv.n >= thresholds.ltv_warning * ltv.d
        IN  /\ crit => call_result = "CRITICAL"
            /\ ~crit /\ warn => call_result = "WARNING"
            /\ ~crit /\ ~warn => call_result = "Healthy"
            /\ ltv = RatOfInt(thresholds.ltv_critical) => call_result = "CRITICAL"
            /\ ltv = RatOfInt(thresholds.ltv_warning) => call_result # "Healthy"

\* an LTV exactly at the warning threshold was classified Warning
C1_Witness ==
    /\ call_fn = "get_status"
    /\ call_args[1] = RatOfInt(thresholds.ltv_warning)
    /\ thresholds.ltv_warning < thresholds.ltv_critical
    /\ call_result = "WARNING"

\* C4: calc_ltv returns 0 whenever total collateral is 0 (also when borrowed
\* is positive), and otherwise 100 * total_borrowed / total_collateral.
C4_CalcLtv ==
    call_fn = "calc_ltv" =>
        LET c == call_args[1]
            b == call_args[2]
            e == Min(c.e, b.e)
        IN  /\ c.m = 0 => call_result = RatZero
            /\ c.m > 0 =>
                   /\ call_result.d > 0
                   /\ call_result.n * Units(c, e) = 100 * Units(b, e) * call_result.d

\* calc_ltv was applied to zero collateral and a positive debt
C4_Witness ==
    /\ call_fn = "calc_ltv"
    /\ call_args[1] = DecZero
    /\ call_args[2] = D(8500, 0)
    /\ call_result = RatZero

\* C5: calc_health_factor returns +infinity whenever total borrowed is 0,
\* for any collateral >= 0, and otherwise
\* (collateral * liquidation_threshold / 100) / borrowed; it is exactly 1
\* for (10000, 8500, 85).
C5_CalcHealthFactor ==
    call_fn = "calc_health_factor" =>
        LET c == call_args[1]
            b == call_args[2]
            lt == call_args[3]
            e == Min(c.e, b.e)
        IN  /\ b.m = 0 => call_result = Inf
            /\ b.m > 0 =>
                   /\ call_result.d > 0
                   /\ call_result.n * 100 * Units(b, e)
                          = Units(c, e) * lt * call_result.d
            /\ (c = D(10000, 0) /\ b = D(8500, 0) /\ lt = 85) =>
                   call_result = RatOfInt(1)

\* calc_health_factor was applied at the liquidation boundary
C5_Witness ==
    /\ call_fn = "calc_health_factor"
    /\ call_args = <<D(10000, 0), D(8500, 0), 85>>
    /\ call_result = RatOfInt(1)


----------------------------------------------------------------------------
(* Claims about check_and_alert                                            *)

\* the calls in a sequence of calls that one notifier received through one
\* method, in order
CallsTo(calls, notifier, method) ==
    SelectSeq(calls, LAMBDA c : c.notifier = notifier /\ c.method = method)

NotifierSet == {notifiers[i] : i \in DOMAIN notifiers}

\* a step that runs the position loop body for positions[k]
PositionStep ==
    /\ cmd = "check"
    /\ pc = "fetched"
    /\ positions # <<>>
    /\ k' = k + 1

\* the calls made during a step
NewCalls == SubSeq(sent', Len(sent) + 1, Len(sent'))

AtOrAbove(ltv, threshold) == ltv.n >= threshold * ltv.d

\* C2: for every position, if ltv >= ltv_critical each notifier receives
\* exactly one send_alert, carrying the CRITICAL subject; if
\* ltv_warning <= ltv < ltv_critical each notifier receives exactly one
\* send_alert, carrying the WARNING subject; no position produces both a
\* critical and a warning alert.
C2_OneAlertPerTier ==
    [][PositionStep =>
        \A n \in NotifierSet :
            LET alerts == CallsTo(NewCalls, n, "send_alert")
                crit == AtOrAbove(positions[k].ltv, thresholds.ltv_critical)
                warn == AtOrAbove(positions[k].ltv, thresholds.ltv_warning)
            IN  /\ crit => /\ Len(alerts) = 1
                           /\ alerts[1].subject = CriticalSubject
                /\ (warn /\ ~crit) => /\ Len(alerts) = 1
                                      /\ alerts[1].subject = WarningSubject
                /\ ~(\E i, j \in DOMAIN alerts :
                        /\ alerts[i].subject = CriticalSubject
                        /\ alerts[j].subject = WarningSubject)]_vars

\* a pair with a warning position followed by a critical one has been
\* processed with both notifiers enabled
C2_Witness ==
    /\ cmd = "check"
    /\ pc = "pair_done"
    /\ notifiers = <<"telegram", "email">>
    /\ thresholds = [ltv_warning |-> 70, ltv_critical |-> 80]
    /\ Len(positions) = 2
    /\ positions[1].ltv = RatOfInt(70)
    /\ positions[2].ltv = RatOfInt(80)
    /\ Len(CallsTo(sent, "email", "send_alert")) = 2
    /\ CallsTo(sent, "email", "send_alert")[1].subject = WarningSubject
    /\ CallsTo(sent, "email", "send_alert")[2].subject = CriticalSubject

\* the log part of C3: exactly one send_log per notifier, naming the wallet
\* label, the protocol and the status of the position
OneLogPerNotifier ==
    \A n \in NotifierSet :
        LET logs == CallsTo(NewCalls, n, "send_log")
        IN  /\ Len(logs) = 1
            /\ logs[1].message.wallet_label = Wallets[wi].label
            /\ logs[1].message.proto_name = Wallets[wi].protocols[pi]
            /\ logs[1].message.status =
                   IF AtOrAbove(positions[k].ltv, thresholds.ltv_critical)
                   THEN "CRITICAL"
                   ELSE IF AtOrAbove(positions[k].ltv, thresholds.ltv_warning)
                   THEN "WARNING"
                   ELSE "Healthy"

NoAlert == \A n \in NotifierSet : CallsTo(NewCalls, n, "send_alert") = <<>>

\* C3: every position produces exactly one send_log per notifier (with
\* wallet label, protocol and status), and a position whose ltv is below
\* both ltv_warning and ltv_critical produces no send_alert.
C3_LogAndNoAlertBelowBoth ==
    [][PositionStep =>
        /\ OneLogPerNotifier
        /\ (/\ ~AtOrAbove(positions[k].ltv, thresholds.ltv_warning)
            /\ ~AtOrAbove(positions[k].ltv, thresholds.ltv_critical)) => NoAlert]_vars

\* C3 as stated: every position produces exactly one send_log per notifier,
\* and a position whose ltv is below ltv_warning produces no send_alert.
C3_NoAlertBelowWarning ==
    [][PositionStep =>
        /\ OneLogPerNotifier
        /\ ~AtOrAbove(positions[k].ltv, thresholds.ltv_warning) => NoAlert]_vars

\* a position with an LTV of 50, below both thresholds, has been processed
\* with both notifiers enabled: two logs, no alert
C3_Witness ==
    /\ cmd = "check"
    /\ pc = "pair_done"
    /\ notifiers = <<"telegram", "email">>
    /\ Len(positions) = 1
    /\ positions[1].ltv = RatOfInt(50)
    /\ Len(sent) = 2
    /\ \A i \in DOMAIN sent : /\ sent[i].method = "send_log"
                              /\ sent[i].message.status = "Healthy"

\* the owned objects of a snapshot that are capabilities carrying a
\* position_id for which the positions table has data
UsableCaps(s) ==
    {i \in DOMAIN s.owned :
        /\ s.owned[i].data.type = CapType
        /\ s.owned[i].data.objectId \in DOMAIN s.objects
        /\ LET fields == s.objects[s.owned[i].data.objectId].data.content.fields
           IN  /\ "position_id" \in DOMAIN fields
               /\ fields.position_id \in DOMAIN s.positions}

\* C7: fetch_positions returns an empty list when the wallet yields no
\* capability, no position_id or no position data, while every capability
\* whose position data exists yields a PositionData; one that resolves to
\* all-zero values has collateral 0, borrowed 0, ltv 0 and health factor
\* +infinity, and check_and_alert logs it as a position, not as
\* "No active positions found".
C7_EmptyVersusZero ==
    /\ UsableCaps(snap) = {} => positions = <<>>
    /\ Len(positions) = Cardinality(UsableCaps(snap))
    /\ \A j \in DOMAIN positions :
           (/\ positions[j].collateral_value = DecZero
            /\ positions[j].borrowed_value = DecZero)
               => /\ positions[j].ltv = RatZero
                  /\ positions[j].health_factor = Inf
    /\ (cmd = "check" /\ pc = "pair_done" /\ positions # <<>>) =>
           /\ \A i \in DOMAIN sent : sent[i].message.kind # "no_positions"
           /\ \A n \in NotifierSet :
                  LET logs == CallsTo(sent, n, "send_log")
                  IN  /\ Len(logs) = Len(positions)
                      /\ \A j \in DOMAIN logs :
                             /\ logs[j].message.kind = "position"
                             /\ logs[j].message.collateral_value =
                                    positions[j].collateral_value
                             /\ logs[j].message.health_factor =
                                    positions[j].health_factor

\* a wallet owning a capability without position data and a capability of a
\* position that holds 0 shares and no loan: one zero-value position is
\* returned and logged as a position
C7_Witness ==
    /\ cmd = "check"
    /\ pc = "pair_done"
    /\ notifiers # <<>>
    /\ Len(snap.owned) = 2
    /\ Cardinality(DOMAIN snap.positions) = 1
    /\ Len(positions) = 1
    /\ positions[1].collateral_value = DecZero
    /\ positions[1].borrowed_value = DecZero
    /\ positions[1].health_factor = Inf
    /\ Len(positions[1].collateral_assets) = 1
    /\ sent[1].message.kind = "position"

\* C8: a wallet x protocol pair whose adapter returns zero positions causes
\* exactly one send_log per notifier, containing "No active positions found"
\* with the wallet's label and the protocol name, and no send_alert; the
\* pair's iteration ends only through that step.
C8_NoPositionsLogged ==
    [][(cmd = "check" /\ pc = "fetched" /\ positions = <<>>) =>
        /\ pc' = "pair_done"
        /\ wi' = wi
        /\ pi' = pi
        /\ \A n \in NotifierSet :
               LET logs == CallsTo(NewCalls, n, "send_log")
               IN  /\ Len(logs) = 1
                   /\ logs[1].message.text = NoPositionsText
                   /\ logs[1].message.wallet_label = Wallets[wi].label
                   /\ logs[1].message.proto_name = Wallets[wi].protocols[pi]
                   /\ CallsTo(NewCalls, n, "send_alert") = <<>>]_vars

\* the second wallet's pair returned no position (its capability has no
\* position data) and both notifiers received the log
C8_Witness ==
    /\ cmd = "check"
    /\ pc = "pair_done"
    /\ wi = 2
    /\ Len(snap.owned) = 1
    /\ positions = <<>>
    /\ notifiers = <<"telegram", "email">>
    /\ Len(sent) = 2
    /\ \A i \in DOMAIN sent :
           /\ sent[i].method = "send_log"
           /\ sent[i].message.text = NoPositionsText
           /\ sent[i].message.wallet_label = "cold"
           /\ sent[i].message.proto_name = "alphalend"

----------------------------------------------------------------------------
(* Claims about generate_daily_report                                      *)

\* the report states "No active positions found." for a pair: as its whole
\* body, or on a line of the pair's wallet section
MentionsNoPositions(message, pair) ==
    \/ message.text = NoPositionsText
    \/ \E i \in DOMAIN message.sections :
           /\ message.sections[i].label = pair[1]
           /\ \E j \in DOMAIN message.sections[i].lines :
                  /\ message.sections[i].lines[j].proto_name = pair[2]
                  /\ message.sections[i].lines[j].status = NoPositionsText

\* C9: the daily report states "no active positions found" for every
\* wallet x protocol pair with zero positions, including when other pairs of
\* the same report have positions.
C9_EmptyPairsReported ==
    pc = "reported" =>
        \A i \in DOMAIN sent : \A pair \in empty_pairs :
            MentionsNoPositions(sent[i].message, pair)

----------------------------------------------------------------------------
(* Claims about the adapter                                                *)

\* the raw position data behind the j-th position returned: the data of the
\* j-th usable capability of the snapshot
RawOf(s, j) ==
    LET i == CHOOSE c \in UsableCaps(s) :
                 Cardinality({x \in UsableCaps(s) : x <= c}) = j
        position_id == s.objects[s.owned[i].data.objectId].data.content.fields.position_id
    IN  s.positions[position_id].content.fields.value.fields

RawCollaterals(s, j) == RawOf(s, j).collaterals.fields.contents
RawLoans(s, j) == RawOf(s, j).loans

\* the sum of usd_value over a list of assets
RECURSIVE SumUsd(_)
SumUsd(assets) ==
    IF assets = <<>> THEN DecZero
    ELSE DecAdd(assets[1].usd_value, SumUsd(Tail(assets)))

\* the market record the adapter had for a market id: the cached record, or
\* none when the lookup failed
MarketUsed(market_id) ==
    IF market_id \in DOMAIN market_cache THEN market_cache[market_id] ELSE EmptyDict

\* C6: every PositionData satisfies the aggregation invariant:
\* collateral_value is the sum of usd_value over collateral_assets and
\* borrowed_value the sum over borrowed_assets, and the two lists hold one
\* element per raw entry, in the raw entries' order.
C6_Aggregation ==
    \A j \in DOMAIN positions :
        LET p == positions[j]
            collaterals_raw == RawCollaterals(snap, j)
            loans_raw == RawLoans(snap, j)
        IN  /\ p.collateral_value = SumUsd(p.collateral_assets)
            /\ p.borrowed_value = SumUsd(p.borrowed_assets)
            /\ Len(p.collateral_assets) = Len(collaterals_raw)
            /\ Len(p.borrowed_assets) = Len(loans_raw)
            /\ \A i \in DOMAIN collaterals_raw :
                   LET d == parse_collateral_entry(collaterals_raw[i],
                                MarketUsed(collaterals_raw[i].fields.key),
                                prices, token_decimals, token_aliases)
                   IN  /\ p.collateral_assets[i].symbol = d.symbol
                       /\ p.collateral_assets[i].amount = d.amount
                       /\ p.collateral_assets[i].usd_value = d.usd_value
            /\ \A i \in DOMAIN loans_raw :
                   LET d == parse_loan_entry(loans_raw[i], prices,
                                             token_decimals, token_aliases)
                   IN  /\ p.borrowed_assets[i].symbol = d.symbol
                       /\ p.borrowed_assets[i].amount = d.amount
                       /\ p.borrowed_assets[i].usd_value = d.usd_value

\* a position with 3 XBTC and 40 SUI of collateral (300 + 100 USD) against
\* 70 USDC and 5 SUI (70 + 12.5 USD) was returned
C6_Witness ==
    /\ pc = "fetched"
    /\ Len(positions) = 1
    /\ Len(positions[1].collateral_assets) = 2
    /\ Len(positions[1].borrowed_assets) = 2
    /\ positions[1].collateral_assets[1].symbol = "XBTC"
    /\ positions[1].collateral_assets[2].symbol = "SUI"
    /\ positions[1].collateral_value = D(400, 0)
    /\ positions[1].borrowed_value = D(825, -1)

\* a symbol has a price in the table, directly or through its alias
HasPrice(symbol) ==
    \/ symbol \in DOMAIN prices
    \/ symbol \in DOMAIN token_aliases /\ token_aliases[symbol] \in DOMAIN prices

PriceOf(symbol) ==
    IF symbol \in DOMAIN prices THEN prices[symbol]
    ELSE prices[token_aliases[symbol]]

\* the markets of the chain: symbol and xtoken ratio (scaled by 10^18)
MarketSymbol(market_id) == IF market_id = 1 THEN "SUI" ELSE "XBTC"
MarketRatio(market_id) == IF market_id = 1 THEN D(1, 18) ELSE D(15, 17)

\* C10: a collateral entry whose market lookup returned an empty record, or
\* an entry whose symbol has no price in the table (directly or via alias),
\* is valued with price 0 and usd_value 0; the other entries are valued
\* normally; the PositionData is still returned.
C10_MissingDataValuedZero ==
    /\ Len(positions) = Cardinality(UsableCaps(snap))
    /\ \A j \in DOMAIN positions :
        LET p == positions[j]
            collaterals_raw == RawCollaterals(snap, j)
            loans_raw == RawLoans(snap, j)
        IN  /\ Len(p.collateral_assets) = Len(collaterals_raw)
            /\ Len(p.borrowed_assets) = Len(loans_raw)
            /\ \A i \in DOMAIN collaterals_raw :
                   LET a == p.collateral_assets[i]
                       market_id == collaterals_raw[i].fields.key
                       shares == collaterals_raw[i].fields.value
                   IN  /\ market_id \notin DOMAIN market_cache =>
                              a.price = DecZero /\ a.usd_value = DecZero
                       /\ ~HasPrice(a.symbol) =>
                              a.price = DecZero /\ a.usd_value = DecZero
                       /\ (market_id \in DOMAIN market_cache /\ HasPrice(a.symbol)) =>
                              /\ a.symbol = MarketSymbol(market_id)
                              /\ a.amount =
                                     DecDivPow10(DecMul(shares, MarketRatio(market_id)),
                                                 RatioDigits + token_decimals[a.symbol])
                              /\ a.price = PriceOf(a.symbol)
                              /\ a.usd_value = DecMul(a.amount, a.price)
            /\ \A i \in DOMAIN loans_raw :
                   LET a == p.borrowed_assets[i]
                   IN  /\ ~HasPrice(a.symbol) =>
                              a.price = DecZero /\ a.usd_value = DecZero
                       /\ HasPrice(a.symbol) =>
                              /\ a.amount = DecDivPow10(loans_raw[i].fields.amount,
                                                        token_decimals[a.symbol])
                              /\ a.price = PriceOf(a.symbol)
                              /\ a.usd_value = DecMul(a.amount, a.price)

\* the lookup of market 2 failed and market 1 answered: the first entry is
\* valued 0 under the placeholder symbol, the second (40 SUI) 100 USD, and
\* the position is returned with a collateral value of 100 USD
C10_Witness ==
    /\ pc = "fetched"
    /\ 2 \notin DOMAIN market_cache
    /\ Len(positions) = 1
    /\ Len(positions[1].collateral_assets) = 2
    /\ positions[1].collateral_assets[1].symbol = "UNKNOWN"
    /\ positions[1].collateral_assets[1].price = DecZero
    /\ positions[1].collateral_assets[1].usd_value = DecZero
    /\ positions[1].collateral_assets[2].usd_value = D(100, 0)
    /\ positions[1].collateral_value = D(100, 0)

\* the entries of a returned position that lack what names their token: a
\* collateral entry whose market lookup gave no record, a loan entry
\* without an embedded coin type
UnresolvedCollaterals(j) ==
    {i \in DOMAIN RawCollaterals(snap, j) :
        RawCollaterals(snap, j)[i].fields.key \notin DOMAIN market_cache}

UnresolvedLoans(j) ==
    {i \in DOMAIN RawLoans(snap, j) :
        "coin_type" \notin DOMAIN RawLoans(snap, j)[i].fields}

\* C11: a collateral entry whose market lookup returns an empty record, and
\* a loan entry without an embedded coin type, is reported with the
\* upper-cased placeholder symbol "UNKNOWN" in the resulting asset detail.
C11_PlaceholderUpperCased ==
    \A j \in DOMAIN positions :
        /\ \A i \in UnresolvedCollaterals(j) :
               positions[j].collateral_assets[i].symbol = "UNKNOWN"
        /\ \A i \in UnresolvedLoans(j) :
               positions[j].borrowed_assets[i].symbol = "UNKNOWN"

\* C11 as stated: such entries are reported with the symbol "Unknown".
C11_PlaceholderAsWritten ==
    \A j \in DOMAIN positions :
        /\ \A i \in UnresolvedCollaterals(j) :
               positions[j].collateral_assets[i].symbol = "Unknown"
        /\ \A i \in UnresolvedLoans(j) :
               positions[j].borrowed_assets[i].symbol = "Unknown"

\* a position was returned whose first collateral entry had no market record
\* and whose first loan had no coin type
C11_Witness ==
    /\ pc = "fetched"
    /\ Len(positions) = 1
    /\ 1 \in UnresolvedCollaterals(1)
    /\ 1 \in UnresolvedLoans(1)
    /\ positions[1].collateral_assets[1].symbol = "UNKNOWN"
    /\ positions[1].borrowed_assets[1].symbol = "UNKNOWN"

----------------------------------------------------------------------------
(* Claims about the parser's conversions                                   *)

\* C12: resolve_price returns prices[symbol] when it is present and non-zero
\* (the alias is not consulted); when it is absent or exactly 0 and the
\* symbol has an alias, it returns the alias's price if present and 0 if
\* not (one hop only); without an alias it returns 0.
C12_ResolvePrice ==
    call_fn = "resolve_price" =>
        LET symbol == call_args[1]
            table == call_args[2]
            aliases == call_args[3]
            direct == symbol \in DOMAIN table /\ table[symbol] # DecZero
        IN  /\ direct => call_result = table[symbol]
            /\ (~direct /\ symbol \in DOMAIN aliases) =>
                   call_result = IF aliases[symbol] \in DOMAIN table
                                 THEN table[aliases[symbol]]
                                 ELSE DecZero
            /\ (~direct /\ symbol \notin DOMAIN aliases) => call_result = DecZero

\* XBTC is priced 0 in the table and its alias BTC 100: the alias's price
\* was returned
C12_Witness ==
    /\ call_fn = "resolve_price"
    /\ call_args[1] = "XBTC"
    /\ call_args[2] = [XBTC |-> DecZero, BTC |-> D(100, 0)]
    /\ call_args[3] = token_aliases
    /\ call_result = D(100, 0)

\* a <= b for non-negative decimals with mantissas below 1000; exponents
\* more than 6 apart decide by themselves
DecLeq(a, b) ==
    IF a.m = 0 THEN TRUE
    ELSE IF b.m = 0 THEN FALSE
    ELSE IF a.e - b.e > 6 THEN FALSE
    ELSE IF b.e - a.e > 6 THEN TRUE
    ELSE LET e == Min(a.e, b.e)
         IN  a.m * Pow10(a.e - e) <= b.m * Pow10(b.e - e)

\* the exchange ratio a market record supplies, 10^18 when it supplies none
RatioOf(market_info) ==
    IF "xtoken_ratio" \notin DOMAIN market_info THEN D(1, 18)
    ELSE IF IsDict(market_info.xtoken_ratio)
    THEN IF /\ "fields" \in DOMAIN market_info.xtoken_ratio
            /\ "value" \in DOMAIN market_info.xtoken_ratio.fields
         THEN market_info.xtoken_ratio.fields.value
         ELSE D(1, 18)
    ELSE market_info.xtoken_ratio

\* the configured decimals of a symbol, 9 when it is not configured
DecimalsOf(symbol) ==
    IF symbol \in DOMAIN token_decimals THEN token_decimals[symbol] ELSE 9

C14_DirectConversion ==
    call_fn = "parse_loan_entry" =>
        LET raw_amount == call_args[1].fields.amount
            decimals == DecimalsOf(call_result.symbol)
        IN  /\ call_result.amount = D(raw_amount.m, raw_amount.e - decimals)
            /\ call_result.symbol \notin DOMAIN token_decimals =>
                   call_result.amount = D(raw_amount.m, raw_amount.e - 9)
            /\ call_result.usd_value = DecMul(call_result.amount, call_result.price)
            /\ raw_amount = DecZero =>
                   /\ call_result.amount = DecZero
                   /\ call_result.usd_value = DecZero

\* 5 * 10^9 raw units of a token without configured decimals were converted
\* to 5 tokens, worth 1 USD at 0.2
C14_Witness ==
    /\ call_fn = "parse_loan_entry"
    /\ call_args[1] = LoanEntry(D(5, 9), <<"0x9", "doge", "DOGE">>)
    /\ call_args[2] = LoanPrices
    /\ call_result.symbol = "DOGE"
    /\ call_result.amount = D(5, 0)
    /\ call_result.usd_value = D(1, 0)

----------------------------------------------------------------------------
(* Claims about the chain client                                           *)

\* an endpoint fails when its request raises, when its answer has an
\* "error" member, or when its answer is not a JSON object
EndpointFails(answer) == answer.kind # "object" \/ HasError(answer)

\* the endpoints in cyclic order from index start
CyclicOrder(n, start) == [x \in 1..n |-> (start + x - 1) % n]

\* the first endpoint, in cyclic order from start, that does not fail
FirstServing(answers, start) ==
    LET n == Len(answers)
        x == CHOOSE j \in 1..n :
                 /\ ~EndpointFails(answers[CyclicOrder(n, start)[j] + 1])
                 /\ \A h \in 1..(j - 1) :
                        EndpointFails(answers[CyclicOrder(n, start)[h] + 1])
    IN  CyclicOrder(n, start)[x]

AllFail(answers) == \A i \in DOMAIN answers : EndpointFails(answers[i])

\* C17: rpc_call tries the endpoints in cyclic order starting at
\* current_rpc_index, each at most once per call; it returns the result of
\* the first endpoint answering without an "error" member, and raises
\* RuntimeError("All RPC endpoints failed") exactly when every endpoint
\* failed.
C17_CyclicFailover ==
    call_fn = "rpc_call" =>
        LET r == call_result
            n == Len(endpoints)
            start == call_args[1]
        IN  /\ Len(r.tried) <= n
            /\ \A x \in DOMAIN r.tried : r.tried[x] = CyclicOrder(n, start)[x]
            /\ \A x, h \in DOMAIN r.tried : x # h => r.tried[x] # r.tried[h]
            /\ r.raised <=> AllFail(rpc_answers)
            /\ ~AllFail(rpc_answers) =>
                   LET i == FirstServing(rpc_answers, start)
                   IN  /\ r.tried = SubSeq(CyclicOrder(n, start), 1, Len(r.tried))
                       /\ r.tried[Len(r.tried)] = i
                       /\ r.result = Get(rpc_answers[i + 1].body, "result", EmptyDict)

\* C18: after a successful call current_rpc_index is the index of the
\* endpoint that served it, after a call in which every endpoint failed it is
\* unchanged, and 0 <= current_rpc_index < number of endpoints always.
C18_StickyIndex ==
    /\ 0 <= current_rpc_index
    /\ current_rpc_index < Len(endpoints)
    /\ call_fn = "rpc_call" =>
           /\ ~call_result.raised =>
                  current_rpc_index = call_result.tried[Len(call_result.tried)]
           /\ call_result.raised => current_rpc_index = call_args[1]

\* C15: when every RPC endpoint fails during the fetch of a pair,
\* check_and_alert goes on without an exception: the fetch returns no
\* position, and the pair is reported by exactly one send_log per notifier
\* with "No active positions found" and by no send_alert.
C15_ChainDownReportsNoPositions ==
    [][/\ (cmd = "check" /\ pc = "pair" /\ rpc_answers' # <<>> /\ AllFail(rpc_answers')) =>
              /\ pc' = "fetched"
              /\ positions' = <<>>
              /\ cmd' = "check"
       /\ (cmd = "check" /\ pc = "fetched" /\ rpc_answers # <<>> /\ AllFail(rpc_answers)) =>
              /\ pc' = "pair_done"
              /\ cmd' = "check"
              /\ wi' = wi
              /\ pi' = pi
              /\ \A n \in NotifierSet :
                     LET logs == CallsTo(NewCalls, n, "send_log")
                     IN  /\ Len(logs) = 1
                         /\ logs[1].message.text = NoPositionsText
                         /\ logs[1].message.wallet_label = Wallets[wi].label
                         /\ logs[1].message.proto_name = Wallets[wi].protocols[pi]
                         /\ CallsTo(NewCalls, n, "send_alert") = <<>>]_vars

\* both endpoints failed during the fetch of the first wallet's pair while the
\* chain held a position, and the notifier received the one log
C15_Witness ==
    /\ cmd = "check"
    /\ pc = "pair_done"
    /\ wi = 1
    /\ rpc_answers = <<RpcDown, RpcError>>
    /\ current_rpc_index = 0
    /\ positions = <<>>
    /\ snap = ChainDown
    /\ notifiers # <<>>
    /\ Len(sent) = Len(notifiers)
    /\ \A i \in DOMAIN sent :
           /\ sent[i].method = "send_log"
           /\ sent[i].message.text = NoPositionsText

----------------------------------------------------------------------------
(* Claims about the monitoring loop                                        *)

\* the interval run_continuous was asked to use, in minutes
ConfiguredInterval ==
    IF call_args[1] # <<>> /\ call_args[1][1] # 0
    THEN call_args[1][1]
    ELSE CheckIntervalMinutes

\* the cycle in progress went through every wallet
CycleCompleted == pc = "pair" /\ wi > Len(Wallets)

\* C16: run_continuous never terminates because of an Exception raised in a
\* cycle: after a cycle that raises it waits 60 seconds and starts another
\* cycle, after a cycle that returns it waits the configured interval, and
\* cycles are started infinitely often.
C16_LoopNeverStops ==
    /\ [][/\ loop # "off" => loop' \in {"cycle", "sleep"}
          /\ (loop = "cycle" /\ loop' # "cycle") =>
                 /\ loop' = "sleep"
                 /\ delay' = IF CycleCompleted THEN ConfiguredInterval * 60 ELSE 60
          /\ (loop = "sleep" /\ loop' # "sleep") =>
                 /\ loop' = "cycle"
                 /\ pc' = "idle"]_vars
    /\ []<>(loop = "cycle" /\ pc = "idle")
    /\ []<>(loop = "cycle" /\ pc = "pair")

\* a cycle raised at the second wallet, after the first wallet's pair was
\* processed, and the loop waits 60 seconds although 5 minutes were asked for
C16_Witness ==
    /\ loop = "sleep"
    /\ delay = 60
    /\ call_args = <<(<<5>>)>>
    /\ interval = 5
    /\ pc = "idle"
    /\ current_rpc_index = 1

----------------------------------------------------------------------------
(* Claims about the market cache                                           *)

\* C19: the market cache is never invalidated: no entry is removed or
\* overwritten, and once a record is cached for a market id, a later
\* _get_market_info for that id returns that record whatever the chain would
\* answer, leaving the cache as it is.
C19_CacheNeverInvalidated ==
    [][/\ \A id \in DOMAIN market_cache :
              /\ id \in DOMAIN market_cache'
              /\ market_cache'[id] = market_cache[id]
       /\ call_fn' = "get_market_info" =>
              \A id \in DOMAIN market_cache :
                  call_args'[1] = id =>
                      /\ call_result' = market_cache[id]
                      /\ market_cache' = market_cache]_vars

\* market 1 was cached with its first ratio; the chain now answers the
\* repriced market and the call still returned the cached record
C19_Witness ==
    /\ call_fn = "get_market_info"
    /\ call_args = <<1, DynamicField(RepricedMarket(1))>>
    /\ 1 \in DOMAIN market_cache
    /\ market_cache[1] = ChainMarkets[1]
    /\ call_result = ChainMarkets[1]
    /\ call_result # RepricedMarket(1)

----------------------------------------------------------------------------
(* Claims about the configuration                                          *)

DocumentIsMapping == raw_config.yaml.doc = "mapping"

\* the entries under "wallets" in the document
ConfiguredWallets ==
    IF DocumentIsMapping /\ raw_config.yaml.wallets.kind = "list"
    THEN raw_config.yaml.wallets.items
    ELSE <<>>

ConfiguredChains == IF DocumentIsMapping THEN DOMAIN raw_config.yaml.chains ELSE {}
ConfiguredProtocols == IF DocumentIsMapping THEN DOMAIN raw_config.yaml.protocols ELSE {}

\* the address of a wallet entry once ${...} is replaced from the environment
ConfiguredAddress(w) ==
    IF "address" \notin DOMAIN w THEN ""
    ELSE IF w.address = "${WALLET_ADDRESS}"
    THEN IF "WALLET_ADDRESS" \in DOMAIN raw_config.env
         THEN raw_config.env["WALLET_ADDRESS"] ELSE ""
    ELSE w.address

\* one of the four conditions holds of the configuration
ConfigInvalid ==
    \/ ConfiguredWallets = <<>>
    \/ \E i \in DOMAIN ConfiguredWallets :
           LET w == ConfiguredWallets[i]
           IN  \/ ConfiguredAddress(w) = ""
               \/ w.chain \notin ConfiguredChains
               \/ /\ "protocols" \in DOMAIN w
                  /\ \E j \in DOMAIN w.protocols : w.protocols[j] \notin ConfiguredProtocols

\* none of the four conditions holds of an AppConfig
AppConfigValid(cfg) ==
    /\ cfg.wallets # <<>>
    /\ \A i \in DOMAIN cfg.wallets :
           /\ cfg.wallets[i].address # ""
           /\ cfg.wallets[i].chain \in DOMAIN cfg.chains
           /\ \A j \in DOMAIN cfg.wallets[i].protocols :
                  cfg.wallets[i].protocols[j] \in DOMAIN cfg.protocols

\* load_config has returned
ConfigReturned == cli \in {"loaded", "built", "crashed", "running"}

----------------------------------------------------------------------------
(* Claims about the daily report, continued                                *)

\* the wallet x protocol pairs that have an adapter
AdapterPairs ==
    UNION { { <<Wallets[i].label, Wallets[i].protocols[j]>> :
                j \in {x \in DOMAIN Wallets[i].protocols :
                          Wallets[i].protocols[x] \in Adapters} } :
            i \in DOMAIN Wallets }

\* the labels of the wallets of which some pair returned a position, in
\* configured order, once every pair has been fetched
RECURSIVE LabelsWithPositions(_, _)
LabelsWithPositions(i, empties) ==
    IF i > Len(Wallets) THEN <<>>
    ELSE (IF \E j \in DOMAIN Wallets[i].protocols :
                /\ Wallets[i].protocols[j] \in Adapters
                /\ <<Wallets[i].label, Wallets[i].protocols[j]>> \notin empties
          THEN <<Wallets[i].label>> ELSE <<>>)
         \o LabelsWithPositions(i + 1, empties)

\* the index of a protocol in the configured list of the wallet labelled so
ProtocolIndex(label, proto_name) ==
    LET w == CHOOSE i \in DOMAIN Wallets : Wallets[i].label = label
    IN  CHOOSE j \in DOMAIN Wallets[w].protocols : Wallets[w].protocols[j] = proto_name

\* C21: generate_daily_report sends exactly one report to each notifier, by
\* send_alert and never by send_log; its body is "No active positions found."
\* exactly when no pair returned a position, and otherwise has one section
\* per wallet with positions, in configured wallet order, the lines of a
\* section in protocol order and, within a protocol, in the order of the
\* positions fetched.
C21_OneReportPerNotifier ==
    [][cmd = "report" =>
        /\ pc' # "reported" => sent' = <<>>
        /\ (pc = "pair" /\ pi' = pi + 1 /\ Wallets[wi].protocols[pi] \in Adapters) =>
               /\ Len(wallet_lines') = Len(wallet_lines) + Len(positions')
               /\ SubSeq(wallet_lines', 1, Len(wallet_lines)) = wallet_lines
               /\ \A j \in DOMAIN positions' :
                      LET line == wallet_lines'[Len(wallet_lines) + j]
                      IN  /\ line.proto_name = Wallets[wi].protocols[pi]
                          /\ line.ltv = positions'[j].ltv
                          /\ line.collateral_value = positions'[j].collateral_value
                          /\ line.borrowed_value = positions'[j].borrowed_value
        /\ pc' = "reported" =>
               /\ Len(sent') = Len(notifiers)
               /\ \A i \in DOMAIN sent' :
                      /\ sent'[i].notifier = notifiers[i]
                      /\ sent'[i].method = "send_alert"
                      /\ sent'[i].message = sent'[1].message
                      /\ sent'[i].message.kind = "report"
                      /\ (sent'[i].message.text = NoPositionsText)
                             <=> (empty_pairs = AdapterPairs)
                      /\ empty_pairs # AdapterPairs =>
                             LET secs == sent'[i].message.sections
                             IN  /\ [x \in DOMAIN secs |-> secs[x].label]
                                        = LabelsWithPositions(1, empty_pairs)
                                 /\ \A x \in DOMAIN secs :
                                        /\ secs[x].lines # <<>>
                                        /\ \A a, b \in DOMAIN secs[x].lines :
                                               a < b =>
                                                   ProtocolIndex(secs[x].label,
                                                       secs[x].lines[a].proto_name)
                                                   <= ProtocolIndex(secs[x].label,
                                                          secs[x].lines[b].proto_name)]_vars

\* both notifiers received the one report, which has a section for each
\* wallet, the second with two positions
C21_Witness ==
    /\ cmd = "report"
    /\ pc = "reported"
    /\ notifiers = <<"telegram", "email">>
    /\ Len(sent) = 2
    /\ sent[1].method = "send_alert"
    /\ sent[2].method = "send_alert"
    /\ Len(sent[1].message.sections) = 2
    /\ sent[1].message.sections[1].label = "main"
    /\ sent[1].message.sections[2].label = "cold"
    /\ Len(sent[1].message.sections[2].lines) = 2
    /\ sent[1].message.sections[2].lines[1].ltv # sent[1].message.sections[2].lines[2].ltv

----------------------------------------------------------------------------
(* Claims about get_token_symbol on arbitrary strings                      *)

\* the position of the last occurrence of "::" in s
LastSeparator(s) ==
    CHOOSE i \in 1..(Len(s) - 1) :
        /\ s[i] = ":" /\ s[i + 1] = ":"
        /\ \A j \in (i + 1)..(Len(s) - 1) : ~(s[j] = ":" /\ s[j + 1] = ":")

\* the number of consecutive ":" that end at position i of s
RECURSIVE ColonsEndingAt(_, _)
ColonsEndingAt(s, i) ==
    IF i < 1 \/ s[i] # ":" THEN 0 ELSE 1 + ColonsEndingAt(s, i - 1)

\* the characters of s after position i
After(s, i) == SubSeq(s, i + 1, Len(s))

\* C22 as stated: get_token_symbol returns the upper-cased text after the
\* last occurrence of "::" when there is one, the upper-cased whole string
\* otherwise, and the empty string for the empty string.
C22_AfterLastSeparator ==
    call_fn = "get_token_symbol" =>
        LET s == call_args[1]
        IN  /\ s = <<>> => call_result = <<>>
            /\ ~HasSeparator(s) => call_result = UpperChars(s)
            /\ HasSeparator(s) =>
                   call_result = UpperChars(After(s, LastSeparator(s) + 1))

\* C22: get_token_symbol is total over strings; it returns the upper-cased
\* last element of split("::"), which is the text after the last run of two
\* or more ":" preceded by one ":" when that run has an odd length; the
\* upper-cased whole string when "::" does not occur; the empty string for
\* the empty string.
C22_LastSplitSegment ==
    call_fn = "get_token_symbol" =>
        LET s == call_args[1]
        IN  /\ s = <<>> => call_result = <<>>
            /\ ~HasSeparator(s) => call_result = UpperChars(s)
            /\ HasSeparator(s) =>
                   LET last == LastSeparator(s) + 1
                       text == UpperChars(After(s, last))
                   IN  call_result =
                           IF ColonsEndingAt(s, last) % 2 = 1
                           THEN <<":">> \o text
                           ELSE text

\* ":::a" gives ":A": the split takes the first two of the three colons
C22_Witness ==
    /\ call_fn = "get_token_symbol"
    /\ call_args = << <<":", ":", ":", "a">> >>
    /\ call_result = <<":", "A">>

----------------------------------------------------------------------------
(* Claims about malformed entries                                          *)

\* C23: one malformed collateral or loan entry never aborts the cycle: a
\* check_and_alert that has started ends only after every wallet x protocol
\* pair has been processed.
C23_BadEntryDoesNotAbort ==
    [][(cmd = "check" /\ cmd' # "check") => wi > Len(Wallets)]_vars

----------------------------------------------------------------------------
(* Claims about liquidatable positions                                     *)

\* borrowed_value > 0 and health_factor < 1.0
Liquidatable(position) ==
    /\ ~DecLeqZero(position.borrowed_value)
    /\ position.health_factor.n < position.health_factor.d

\* C24: whenever ltv_warning <= liquidation_threshold, every position with
\* borrowed_value > 0 and health_factor < 1.0 that check_and_alert processes
\* causes a send_alert to every notifier, also when its collateral is valued
\* at 0 for want of a price.
C24_LiquidatableAlerts ==
    [][(PositionStep /\ thresholds.ltv_warning <= liquidation_threshold
            /\ Liquidatable(positions[k])) =>
        \A n \in NotifierSet : CallsTo(NewCalls, n, "send_alert") # <<>>]_vars

----------------------------------------------------------------------------
(* Claims about the adapters built for an accepted configuration           *)

\* Monitor.__init__ has run, to its end or to an exception
MonitorConstructed == cli \in {"built", "crashed", "running"}

\* the keys of self._adapters after Monitor.__init__
BuiltAdapters == DOMAIN app_config.cfg.protocols \cap Adapters

\* C25: for every configuration that load_config accepts, constructing
\* Monitor raises no exception and an adapter exists for every protocol
\* named by a wallet, so that no wallet x protocol pair is skipped by
\* check_and_alert.
C25_EveryPairHasAdapter ==
    MonitorConstructed =>
        /\ cli # "crashed"
        /\ \A i \in 1..Len(app_config.cfg.wallets) :
             \A j \in 1..Len(app_config.cfg.wallets[i].protocols) :
                app_config.cfg.wallets[i].protocols[j] \in BuiltAdapters

----------------------------------------------------------------------------
(* Claims about what the market cache holds                                *)

\* C26: the market cache only ever holds non-empty market records: a lookup
\* that yields no market data (a failed call, an empty result, a result
\* without the nested value fields) leaves no entry for the market id.
C26_CacheHoldsMarketsOnly ==
    \A id \in DOMAIN market_cache : ~IsEmptyDict(market_cache[id])

----------------------------------------------------------------------------
(* Claims about the selection of position capabilities                     *)

\* the object's type names a position capability, or contains the package
\* id the contracts give
TypeNamesCapability(obj, contracts) ==
    LET type_lower == Lower(Get(Get(obj, "data", EmptyDict), "type", ""))
    IN  \/ Contains("positioncap", type_lower)
        \/ Contains("position_cap", type_lower)
        \/ /\ "package_id" \in DOMAIN contracts
           /\ Contains(contracts["package_id"], Get(Get(obj, "data", EmptyDict), "type", ""))

\* C27: for every contracts mapping that load_config accepts, also one
\* without package_id, _get_position_capabilities selects an owned object
\* only if it has a non-empty objectId and its type names a position
\* capability or contains the protocol's package id: an object of an
\* unrelated type is never selected.
C27_SelectionIsSpecific ==
    call_fn = "get_position_capabilities" =>
        \A i \in 1..Len(call_result) :
            /\ call_result[i] # ""
            /\ \E j \in 1..Len(call_args[2]) :
                 /\ Get(Get(call_args[2][j], "data", EmptyDict), "objectId", "")
                        = call_result[i]
                 /\ TypeNamesCapability(call_args[2][j], call_args[1])

----------------------------------------------------------------------------
(* Claims about the pagination of get_owned_objects                        *)

\* the first request that ends the call: a failed page or a last page
LastRequest(pages) ==
    CHOOSE i \in 1..Len(pages) :
        /\ pages[i].kind = "raise" \/ IsLastPage(pages[i].result)
        /\ \A j \in 1..(i - 1) :
             pages[j].kind = "result" /\ ~IsLastPage(pages[j].result)

\* the data of the pages from i to n, in page order
RECURSIVE PagesData(_, _, _)
PagesData(pages, i, n) ==
    IF i > n THEN <<>>
    ELSE Get(pages[i].result, "data", <<>>) \o PagesData(pages, i + 1, n)

\* C28: get_owned_objects is all-or-nothing: when every page request
\* succeeds it returns the data of the pages, in page order, up to the first
\* page with hasNextPage false or without nextCursor; when a page request
\* fails it returns the empty list, also after earlier pages succeeded.
C28_AllOrNothing ==
    call_fn = "get_owned_objects" =>
        LET pages == call_args[1]
            n == LastRequest(pages)
        IN  IF pages[n].kind = "raise"
            THEN call_result = <<>>
            ELSE call_result = PagesData(pages, 1, n)

\* two pages succeeded with objects and the third request failed
C28_Witness ==
    /\ call_fn = "get_owned_objects"
    /\ Len(call_args[1]) = 3
    /\ call_args[1][3].kind = "raise"
    /\ \A i \in 1..2 : /\ call_args[1][i].kind = "result"
                       /\ ~IsLastPage(call_args[1][i].result)
    /\ PagesData(call_args[1], 1, 2) = <<"0xo1", "0xo2", "0xo3">>
    /\ call_result = <<>>

----------------------------------------------------------------------------
(* Claims about notifiers that fail                                        *)

\* C29: when a notifier's send_log or send_alert raises, the same message
\* still reaches every notifier configured after it, the exception does not
\* end check_and_alert or generate_daily_report, and the remaining positions
\* and pairs of the cycle are processed: every message sent during a step is
\* sent to every notifier, a step of the position loop leaves the workflow in
\* the loop or at its end, and the report step ends with the report sent.
C29_NotifierIsolation ==
    [][/\ Len(sent') > Len(sent) =>
              \A i \in DOMAIN NewCalls :
                  \A n \in NotifierSet :
                      \E j \in DOMAIN NewCalls :
                          NewCalls[j] = [NewCalls[i] EXCEPT !.notifier = n]
       /\ (cmd = "check" /\ pc = "fetched") =>
              /\ cmd' = "check"
              /\ pc' \in {"fetched", "pair_done"}
              /\ pc' = "pair_done" => k' > Len(positions) \/ positions = <<>>
       /\ (cmd = "report" /\ pc = "pair" /\ wi > Len(Wallets)) =>
              /\ pc' = "reported"
              /\ \A n \in NotifierSet : Len(CallsTo(sent', n, "send_alert")) = 1]_vars

\* telegram raises on every call; the second position of the second wallet
\* has been processed and email received both logs and an alert
C29_Witness ==
    /\ failing = {"telegram"}
    /\ notifiers = <<"telegram", "email">>
    /\ cmd = "check"
    /\ wi = 2
    /\ k = 3
    /\ Len(CallsTo(sent, "telegram", "send_log")) = 2
    /\ Len(CallsTo(sent, "email", "send_log")) = 2
    /\ Len(CallsTo(sent, "email", "send_alert")) >= 1

----------------------------------------------------------------------------
(* Claims about the order of a check_and_alert cycle                       *)

\* every asset of the position carries the price the table gives its symbol
ValuedAgainst(position, price_table) ==
    /\ \A i \in DOMAIN position.collateral_assets :
           position.collateral_assets[i].price =
               resolve_price(position.collateral_assets[i].symbol, price_table,
                             token_aliases)
    /\ \A i \in DOMAIN position.borrowed_assets :
           position.borrowed_assets[i].price =
               resolve_price(position.borrowed_assets[i].symbol, price_table,
                             token_aliases)

\* C30: a check_and_alert cycle fetches the price table once, before any
\* position is fetched, and values every position of the cycle against that
\* table; the pairs are processed one after another in wallet order, then
\* protocol order; for each position the log is sent before the alert.
C30_CycleOrder ==
    [][/\ (cmd # "check" /\ cmd' = "check") =>
              /\ prices' \in {FullPrices, NoSuiPrices}
              /\ positions' = <<>>
              /\ wi' = 1 /\ pi' = 1
       /\ (cmd = "check" /\ cmd' = "check") =>
              /\ prices' = prices
              /\ \A i \in DOMAIN positions' : ValuedAgainst(positions'[i], prices)
              /\ \/ wi' = wi /\ pi' \in {pi, pi + 1}
                 \/ wi' = wi + 1 /\ pi' = 1 /\ pi > Len(Wallets[wi].protocols)
              /\ positions' # positions /\ positions' # <<>> =>
                     /\ positions = <<>>
                     /\ wi' = wi /\ pi' = pi
       /\ PositionStep =>
              \A i, j \in DOMAIN NewCalls :
                  (NewCalls[i].method = "send_log" /\ NewCalls[j].method = "send_alert")
                      => i < j]_vars

\* the cycle has reached the last pair of the second wallet with the table
\* fetched at its start; a position fetched there was logged, then alerted
C30_Witness ==
    /\ cmd = "check"
    /\ prices = FullPrices
    /\ wi = 2 /\ pi = 2
    /\ pc = "pair_done"
    /\ positions # <<>>
    /\ \A i \in DOMAIN positions : ValuedAgainst(positions[i], FullPrices)
    /\ \E i, j \in DOMAIN sent :
           /\ i < j
           /\ sent[i].method = "send_log"
           /\ sent[j].method = "send_alert"
====
